---- MODULE Spec2Model ----
(***************************************************************************)
(* Model of the per-user API key store of the bot,                         *)
(* src/bot/storage/api_keys.py: two storage backends (a PostgreSQL table   *)
(* with a JSONB column, a local JSON file), the load-time schema migration *)
(* and the named-key registry of the two namespaces "do" and "ps".         *)
(*                                                                         *)
(* Data model.  A Python dict is a function whose DOMAIN is the set of its *)
(* keys ({} is the empty function <<>>).  The "keys" mapping of a          *)
(* namespace is iterated by the code (next(iter(keys))), so it keeps its   *)
(* insertion order: it is a sequence of <<name, token>> pairs with         *)
(* distinct names.  JSON null / Python None is the reserved string None,   *)
(* which is no member of Names or Tokens.                                  *)
(*                                                                         *)
(* A stored document that is no JSON object is a function with one         *)
(* reserved key: "$str" (a JSON string, kept as its sequence of            *)
(* characters, which the code's substring tests read), "$num" (a number),  *)
(* "$list" (an array).                                                     *)
(*                                                                         *)
(* pgSchema is the shape of the user_api_keys table: table is "none" (the  *)
(* table does not exist), "old" (user_id, token TEXT) or "new" (user_id,   *)
(* data JSONB); token is the token column of the old table (None is SQL    *)
(* NULL), pgTable the data column of the new one.                          *)
(*                                                                         *)
(* calls and writers belong to the calls that overlap in time (two         *)
(* processes on one store): calls is each process's call in flight and its *)
(* position in it, writers the processes whose write has landed, in order. *)
(*                                                                         *)
(* conv, user_data, shown and event belong to the Telegram handlers of     *)
(* src/bot/handlers: conv is the state of each ConversationHandler for     *)
(* each (chat, user), user_data the per-user context.user_data, shown the  *)
(* droplet id on the confirmation message of a chat's /destroy             *)
(* conversation, event the update handled last and what its handler did.   *)
(*                                                                         *)
(* is_monitoring, last_check_result, jobs and created belong to the GPU    *)
(* monitor script src/main.py: its two globals, the number of gpu_monitor  *)
(* jobs the job queue holds for each chat, and the number of droplets      *)
(* created for a chat since its monitoring was started last.               *)
(***************************************************************************)
EXTENDS Integers, Sequences, FiniteSets, TLC

VARIABLES settings, pgSchema, pgTable, jsonFile, prev, last, nops,
          calls, writers,
          conv, user_data, shown, event,
          is_monitoring, last_check_result, jobs, created

raceVars == <<calls, writers>>
chatVars == <<conv, user_data, shown, event>>
monitorVars == <<is_monitoring, last_check_result, jobs, created>>

vars == <<settings, pgSchema, pgTable, jsonFile, prev, last, nops,
          raceVars, chatVars, monitorVars>>

(***************************************************************************)
(* Bounds of the model.                                                    *)
(***************************************************************************)
MaxOps == 3

UserIds == {1, 2}
Namespaces == {"do", "ps"}
Names == {"Home", "Work"}
Tokens == {"tok_abc", "tok_xyz"}
EnvDoTokens == {"", "env_do"}
DatabaseUrls == {"", "postgres://db"}

None == "None"
EmptyDict == <<>>

(***************************************************************************)
(* Python helpers.                                                         *)
(***************************************************************************)
\* bool(x) for the values the code tests: None and "" are falsy.
Truthy(x) == x # None /\ x # ""

\* d.get(k, default)
Get(d, k, default) == IF k \in DOMAIN d THEN d[k] ELSE default

\* d after d.setdefault(k, default)
SetDefault(d, k, default) == IF k \in DOMAIN d THEN d ELSE (k :> default) @@ d

\* d after d[k] = v, for a dict whose order is never observed
Put(d, k, v) == (k :> v) @@ d

\* d after d.pop(k, None)
Pop(d, k) == [x \in (DOMAIN d) \ {k} |-> d[x]]

\* The ordered "keys" mapping: names in iteration order, membership, lookup.
KeyNames(keys) == {keys[i][1] : i \in 1..Len(keys)}

KeysGet(keys, name) ==
    IF name \in KeyNames(keys)
    THEN LET i == CHOOSE j \in 1..Len(keys) : keys[j][1] = name IN keys[i][2]
    ELSE None

\* keys after keys[name] = token: an existing name keeps its position, a new
\* name is appended.
KeysSet(keys, name, token) ==
    IF name \in KeyNames(keys)
    THEN [i \in 1..Len(keys) |->
            IF keys[i][1] = name THEN <<name, token>> ELSE keys[i]]
    ELSE Append(keys, <<name, token>>)

\* Mutant: the first entry is removed, whatever its name.
KeysDel_First(keys, name) == IF Len(keys) = 0 THEN keys ELSE Tail(keys)

\* keys after del keys[name]
KeysDel(keys, name) == SelectSeq(keys, LAMBDA p : p[1] # name)

\* Mutant: the last name in iteration order is taken.
FirstKey_Last(keys) == IF Len(keys) = 0 THEN None ELSE keys[Len(keys)][1]

\* next(iter(keys), None)
FirstKey(keys) == IF Len(keys) = 0 THEN None ELSE keys[1][1]

(***************************************************************************)
(* Values that are no dict.  json.loads and psycopg2 hand the stored JSON  *)
(* value to the code as it is: an object as a dict, a string as a str, a   *)
(* number as an int, an array as a list.                                   *)
(***************************************************************************)
IsStr(x) == "$str" \in DOMAIN x
IsNum(x) == "$num" \in DOMAIN x
IsList(x) == "$list" \in DOMAIN x
IsDict(x) == ~IsStr(x) /\ ~IsNum(x) /\ ~IsList(x)

\* k in x, where x does not raise: a key of a dict, a substring of a str, an
\* element of a list.
In(k, x) ==
    LET
        \* The characters of a str: of the four literals the migration looks for
        \* and of the strings stored as bare tokens.
        Chars(str) ==
            CASE str = "do"         -> <<"d", "o">>
              [] str = "ps"         -> <<"p", "s">>
              [] str = "keys"       -> <<"k", "e", "y", "s">>
              [] str = "active"     -> <<"a", "c", "t", "i", "v", "e">>
              [] str = "tok_abc"    -> <<"t", "o", "k", "_", "a", "b", "c">>
              [] str = "dop_v1_abc" -> <<"d", "o", "p", "_", "v", "1", "_", "a", "b", "c">>
        \* sub in s, for two str: sub occurs in s as a substring.
        IsSubstring(sub, s) ==
            \E i \in 1..(Len(s) - Len(sub) + 1) : SubSeq(s, i, i + Len(sub) - 1) = sub
    IN
    CASE IsStr(x)  -> IsSubstring(Chars(k), Chars(x["$str"]))
      [] IsList(x) -> \E i \in 1..Len(x["$list"]) : x["$list"][i] = k
      [] IsNum(x)  -> FALSE
      [] OTHER     -> k \in DOMAIN x

(***************************************************************************)
(* Settings and backend selection.                                         *)
(***************************************************************************)
\* _db_url(): settings.DATABASE_URL with the postgres:// scheme rewritten.
_db_url ==
    IF settings.DATABASE_URL = "postgres://db" THEN "postgresql://db"
    ELSE settings.DATABASE_URL

_use_postgres == _db_url # ""

(***************************************************************************)
(* Storage conditions of one call.  r1: the read of _raw_load succeeds;    *)
(* r2: the read inside _json_save / _json_delete_user succeeds; w: the     *)
(* write succeeds ("ok"), fails leaving the stored data as it was          *)
(* ("fail"), or - file backend only, write_text truncates before it        *)
(* writes - fails leaving an unparseable file ("torn"); "none": the call   *)
(* writes nothing.  A PostgreSQL write is one transaction.  Conditions     *)
(* that cannot change the outcome (a read error on a file that is missing  *)
(* or does not parse anyway, the second read of a write that fails) are    *)
(* not enumerated twice.                                                   *)
(***************************************************************************)
WriteIo ==
    IF _use_postgres
    THEN [r1 : BOOLEAN, r2 : {TRUE}, w : {"ok", "fail"}]
    ELSE {io \in [r1 : BOOLEAN, r2 : BOOLEAN, w : {"ok", "fail", "torn"}] :
            /\ io.w # "ok" => io.r2
            /\ jsonFile.state # "ok" => io.r1 /\ io.r2}

ReadIo ==
    {io \in [r1 : BOOLEAN, r2 : {TRUE}, w : {"none"}] :
        (~_use_postgres /\ jsonFile.state # "ok") => io.r1}

(***************************************************************************)
(* PostgreSQL backend: pgTable maps the user ids that have a row to the    *)
(* row's JSONB document.                                                   *)
(***************************************************************************)
\* An object as JSONB stores it: keys deduplicated and kept in JSONB order,
\* not in the order they were written.
JsonbObject(keys) ==
    LET
        \* Key names, listed in the order PostgreSQL's JSONB type stores object keys
        \* (shorter key first, then bytewise).
        JsonbKeyOrder == <<"Home", "Work", "Default", "tok_abc", "tok_xyz">>
    IN
    LET present == SelectSeq(JsonbKeyOrder, LAMBDA n : n \in KeyNames(keys))
    IN  [i \in 1..Len(present) |-> <<present[i], KeysGet(keys, present[i])>>]

\* json.dumps(data) stored into the JSONB column and read back by psycopg2.
Jsonb(data) ==
    LET
        JsonbNamespace(nsData) ==
            [f \in DOMAIN nsData |->
                IF f = "keys" THEN JsonbObject(nsData[f]) ELSE nsData[f]]
    IN
    [f \in DOMAIN data |->
        IF f \in Namespaces THEN JsonbNamespace(data[f])
        ELSE IF f = "keys" THEN JsonbObject(data[f])
        ELSE data[f]]

\* Mutant: the SELECT has no WHERE clause, the first row of the table is
\* answered.
_pg_load_NoWhere(user_id) ==
    IF pgTable = EmptyDict THEN EmptyDict
    ELSE pgTable[CHOOSE u \in DOMAIN pgTable : TRUE]

_pg_load(user_id) ==
    IF user_id \in DOMAIN pgTable THEN pgTable[user_id] ELSE EmptyDict

\* Mutant: a record without keys is not stored, its row is deleted.
_pg_save_DropEmpty(user_id, data) ==
    IF \A ns \in Namespaces :
          Get(Get(data, ns, EmptyDict), "keys", EmptyDict) = EmptyDict
    THEN Pop(pgTable, user_id)
    ELSE Put(pgTable, user_id, Jsonb(data))

\* Mutant: ON CONFLICT DO NOTHING, the row of a user who has one is kept.
_pg_save_InsertOnly(user_id, data) ==
    IF user_id \in DOMAIN pgTable THEN pgTable
    ELSE Put(pgTable, user_id, Jsonb(data))

\* Mutant: the upsert merges the saved keys into the keys of the stored row.
_pg_save_Merge(user_id, data) ==
    LET old    == Get(pgTable, user_id, EmptyDict)
        merged == [ns \in DOMAIN data |->
                     IF "keys" \in DOMAIN data[ns]
                     THEN [data[ns] EXCEPT !.keys =
                             Get(Get(old, ns, EmptyDict), "keys", EmptyDict)
                             \o SelectSeq(@, LAMBDA e :
                                   e[1] \notin KeyNames(
                                      Get(Get(old, ns, EmptyDict), "keys",
                                          EmptyDict)))]
                     ELSE data[ns]]
    IN  Put(pgTable, user_id, Jsonb(merged))

\* INSERT ... ON CONFLICT (user_id) DO UPDATE: the table after the upsert.
_pg_save(user_id, data) == Put(pgTable, user_id, Jsonb(data))

_pg_delete_user(user_id) == Pop(pgTable, user_id)

\* The table as a successful _pg_init leaves it: no token column.
NewSchema == [table |-> "new", token |-> EmptyDict]

\* Mutant: the token column is dropped before its rows are converted.
_pg_init_DropFirst ==
    CASE pgSchema.table = "none" -> [schema |-> NewSchema, pg |-> EmptyDict]
      [] pgSchema.table = "old"  ->
            [schema |-> NewSchema,
             pg     |-> [u \in DOMAIN pgSchema.token |-> EmptyDict]]
      [] pgSchema.table = "new"  -> [schema |-> pgSchema, pg |-> pgTable]

\* Mutant: the table is dropped and created again on every start.
_pg_init_Recreate == [schema |-> NewSchema, pg |-> EmptyDict]

\* The table after the committed transaction of _pg_init.  CREATE TABLE IF
\* NOT EXISTS makes a missing table; on an old table ADD COLUMN gives every
\* row the default data '{}', the UPDATEs convert the rows whose token is
\* not NULL, DROP COLUMN removes the tokens; a new table has no token
\* column and is left as it is.
_pg_init ==
    LET
        \* The document _pg_init writes into the row of a user whose token column
        \* is not NULL.
        MigratedRow(token) ==
            [do |-> [keys |-> << <<"Default", token>> >>, active |-> "Default"],
             ps |-> EmptyDict]
    IN
    CASE pgSchema.table = "none" -> [schema |-> NewSchema, pg |-> EmptyDict]
      [] pgSchema.table = "old"  ->
            [schema |-> NewSchema,
             pg     |-> [u \in DOMAIN pgSchema.token |->
                            IF pgSchema.token[u] # None
                            THEN Jsonb(MigratedRow(pgSchema.token[u]))
                            ELSE EmptyDict]]
      [] pgSchema.table = "new"  -> [schema |-> pgSchema, pg |-> pgTable]

(***************************************************************************)
(* JSON file backend: jsonFile.state is "missing" (no file), "ok" (the     *)
(* file parses to jsonFile.data, a mapping str(user_id) -> document) or    *)
(* "corrupt" (the file exists and does not parse).                         *)
(***************************************************************************)
\* str(user_id)
Str(user_id) == <<"1", "2", "3">>[user_id]

_json_load_all(readOk) ==
    IF jsonFile.state = "missing" THEN EmptyDict
    ELSE IF jsonFile.state = "ok" /\ readOk THEN jsonFile.data
    ELSE EmptyDict

\* The file after _json_save_all(data); the exception of a failed write is
\* logged and swallowed.
_json_save_all(data, w) ==
    CASE w = "ok"   -> [state |-> "ok", data |-> data]
      [] w = "fail" -> jsonFile
      [] w = "torn" -> [state |-> "corrupt", data |-> EmptyDict]

_json_load(user_id, readOk) ==
    Get(_json_load_all(readOk), Str(user_id), EmptyDict)

_json_save(user_id, data, readOk, w) ==
    _json_save_all(Put(_json_load_all(readOk), Str(user_id), data), w)

_json_delete_user(user_id, readOk, w) ==
    _json_save_all(Pop(_json_load_all(readOk), Str(user_id)), w)

(***************************************************************************)
(* Load / save dispatch and the load-time migration.                       *)
(***************************************************************************)
\* Mutant: a failed PostgreSQL read is answered with the stored row.
_raw_load_IgnoreFailure(user_id, io) ==
    IF _use_postgres THEN _pg_load(user_id) ELSE _json_load(user_id, io.r1)

\* Any exception of the backend read is caught and answered with {}: a
\* connection error, or a SELECT of the data column from a table that is
\* missing or has no such column.
_raw_load(user_id, io) ==
    IF _use_postgres
    THEN IF io.r1 /\ pgSchema.table = "new" THEN _pg_load(user_id) ELSE EmptyDict
    ELSE _json_load(user_id, io.r1)

\* _migrate_if_needed(raw) raises: "do" not in raw is a TypeError for an
\* int, raw.get an AttributeError for a str or a list.
MigrateRaises(raw) ==
    \/ IsNum(raw)
    \/ /\ ~IsDict(raw)
       /\ ~In("do", raw) /\ ~In("ps", raw)
       /\ In("keys", raw) \/ In("active", raw)

\* Mutant: a document counts as current only when it has both wrappers.
_migrate_if_needed_Both(raw) ==
    IF In("do", raw) /\ In("ps", raw) THEN raw
    ELSE IF In("keys", raw) \/ In("active", raw)
         THEN [do |-> [keys   |-> Get(raw, "keys", EmptyDict),
                       active |-> Get(raw, "active", None)],
               ps |-> EmptyDict]
         ELSE [do |-> EmptyDict, ps |-> EmptyDict]

\* Mutant: the document is wrapped without looking for the wrappers.
_migrate_if_needed_AlwaysWrap(raw) ==
    [do |-> [keys   |-> Get(raw, "keys", EmptyDict),
             active |-> Get(raw, "active", None)],
     ps |-> EmptyDict]

\* The value _migrate_if_needed(raw) returns when it does not raise.
_migrate_if_needed(raw) ==
    IF ~In("do", raw) /\ ~In("ps", raw)
    THEN IF In("keys", raw) \/ In("active", raw)
         THEN [do |-> [keys   |-> Get(raw, "keys", EmptyDict),
                       active |-> Get(raw, "active", None)],
               ps |-> EmptyDict]
         ELSE [do |-> EmptyDict, ps |-> EmptyDict]
    ELSE raw

\* The two setdefault lines of _load raise: setdefault is called on a value
\* that is no dict (AttributeError).
EnsureRaises(data) ==
    \/ ~IsDict(data)
    \/ \E ns \in Namespaces : ns \in DOMAIN data /\ ~IsDict(data[ns])

\* data after data.setdefault("do", {}).setdefault("keys", {}) and the same
\* for "ps".
EnsureNamespaces(data) ==
    LET data1 == SetDefault(data, "do", EmptyDict)
        data2 == [data1 EXCEPT !["do"] = SetDefault(@, "keys", EmptyDict)]
        data3 == SetDefault(data2, "ps", EmptyDict)
    IN  [data3 EXCEPT !["ps"] = SetDefault(@, "keys", EmptyDict)]

\* _load(user_id) raises: neither the migration nor the setdefault lines
\* are inside a try.
LoadRaises(user_id, io) ==
    LET raw == _raw_load(user_id, io)
    IN  MigrateRaises(raw) \/ EnsureRaises(_migrate_if_needed(raw))

\* The record _load(user_id) returns when it does not raise.
_load(user_id, io) ==
    EnsureNamespaces(_migrate_if_needed(_raw_load(user_id, io)))

\* The outcome of _save: the two backends after it, and whether it raised.
\* The upsert raises on a connection error and on a table that is missing
\* or has no data column.
_save(user_id, data, io) ==
    IF _use_postgres
    THEN IF io.w = "ok" /\ pgSchema.table = "new"
         THEN [pg |-> _pg_save(user_id, data), json |-> jsonFile, raised |-> FALSE]
         ELSE [pg |-> pgTable, json |-> jsonFile, raised |-> TRUE]
    ELSE [pg |-> pgTable, json |-> _json_save(user_id, data, io.r2, io.w),
          raised |-> FALSE]

(***************************************************************************)
(* The named-key registry: what each helper computes from the loaded       *)
(* record.                                                                 *)
(***************************************************************************)
LoadedKeys(data, ns) == Get(Get(data, ns, EmptyDict), "keys", EmptyDict)

LoadedActive(data, ns) == Get(Get(data, ns, EmptyDict), "active", None)

LoadedActiveToken(data, ns) ==
    LET ns_data == Get(data, ns, EmptyDict)
        active  == Get(ns_data, "active", None)
    IN  IF Truthy(active)
        THEN KeysGet(Get(ns_data, "keys", EmptyDict), active)
        ELSE None

\* Mutant: the first key of a namespace is not made the active one.
SetNamedKeyData_NoFirstKey(data, ns, name, token) ==
    LET data1   == SetDefault(data, ns, [keys |-> EmptyDict])
        ns_data == data1[ns]
    IN  Put(data1, ns, Put(ns_data, "keys",
                           KeysSet(Get(ns_data, "keys", EmptyDict), name, token)))

\* Mutant: every saved key becomes the active one.
SetNamedKeyData_AlwaysActive(data, ns, name, token) ==
    LET data1   == SetDefault(data, ns, [keys |-> EmptyDict])
        ns_data == data1[ns]
    IN  Put(data1, ns,
            Put(Put(ns_data, "keys",
                    KeysSet(Get(ns_data, "keys", EmptyDict), name, token)),
                "active", name))

\* Mutant: the key is stored in the other namespace as well.
SetNamedKeyData_EveryNamespace(data, ns, name, token) ==
    LET add(d, n) ==
           LET d1       == SetDefault(d, n, [keys |-> EmptyDict])
               ns_data1 == Put(d1[n], "keys",
                               KeysSet(Get(d1[n], "keys", EmptyDict), name,
                                       token))
           IN  Put(d1, n, IF ~Truthy(Get(ns_data1, "active", None))
                          THEN Put(ns_data1, "active", name)
                          ELSE ns_data1)
    IN  add(add(data, "do"), "ps")

\* The record _ns_set_named_key saves: keys[name] = token, and name becomes
\* active when no (truthy) active name is stored.
SetNamedKeyData(data, ns, name, token) ==
    LET data1    == SetDefault(data, ns, [keys |-> EmptyDict])
        ns_data  == data1[ns]
        ns_data1 == Put(ns_data, "keys",
                        KeysSet(Get(ns_data, "keys", EmptyDict), name, token))
        ns_data2 == IF ~Truthy(Get(ns_data1, "active", None))
                    THEN Put(ns_data1, "active", name)
                    ELSE ns_data1
    IN  Put(data1, ns, ns_data2)

\* Mutant: the deleted key stays the active one.
DeleteNamedKeyData_KeepActive(data, ns, name) ==
    LET ns_data == Get(data, ns, EmptyDict)
    IN  Put(data, ns, Put(ns_data, "keys",
                          KeysDel(Get(ns_data, "keys", EmptyDict), name)))

\* The record _ns_delete_named_key saves when name is a stored key.
DeleteNamedKeyData(data, ns, name) ==
    LET ns_data  == Get(data, ns, EmptyDict)
        keys     == KeysDel(Get(ns_data, "keys", EmptyDict), name)
        ns_data1 == Put(ns_data, "keys", keys)
        ns_data2 == IF Get(ns_data1, "active", None) = name
                    THEN Put(ns_data1, "active", FirstKey(keys))
                    ELSE ns_data1
    IN  Put(data, ns, ns_data2)

\* Mutant: the switch is lost, the record is saved as loaded.
SetActiveKeyData_Unchanged(data, ns, name) == data

\* The record _ns_set_active_key saves when name is a stored key.
SetActiveKeyData(data, ns, name) ==
    Put(data, ns, Put(Get(data, ns, EmptyDict), "active", name))

(***************************************************************************)
(* The calls.  Each action is one whole call of the public function: its   *)
(* load, its change, its save and its result.  prev is the storage before  *)
(* the call, last the call and its outcome.                                *)
(***************************************************************************)
Returned(v) == [raised |-> FALSE, value |-> v]
Raised == [raised |-> TRUE]

Storage == [pg |-> pgTable, json |-> jsonFile, schema |-> pgSchema]

Call(op, user_id, ns, name, token, io, out) ==
    [op |-> op, user_id |-> user_id, ns |-> ns, name |-> name,
     token |-> token, io |-> io, out |-> out]

\* A call that reached _save(user_id, data): data is the record it passed.
SaveCall(op, user_id, ns, name, token, io, out, data) ==
    [op |-> op, user_id |-> user_id, ns |-> ns, name |-> name,
     token |-> token, io |-> io, out |-> out, saved |-> data]

NoCall == Call("idle", 0, None, None, None,
               [r1 |-> TRUE, r2 |-> TRUE, w |-> "none"], Returned(None))

\* The processes whose calls may overlap in time, and a process that has
\* no call in flight.
Procs == {"a", "b"}

NotStarted ==
    [pc |-> "start", op |-> "idle", user_id |-> 0, ns |-> None, name |-> None,
     token |-> None, loaded |-> EmptyDict, saved |-> EmptyDict,
     all |-> EmptyDict, clean |-> TRUE, before |-> {}, out |-> Returned(None)]

\* One call at a time: no call is in flight in another process.
NoOverlap ==
    /\ calls = [p \in Procs |-> NotStarted]
    /\ writers = <<>>

\* The chats the bot is in (a private chat and a group), and the keys of
\* a ConversationHandler with the defaults per_chat = per_user = True.
Chats == {10, 20}

\* ConversationHandler.END: no conversation is open.
END == "END"

NoEvent ==
    [kind |-> "none", chat |-> 0, user |-> 0, data |-> None, of |-> "none",
     handler |-> "none", denied |-> FALSE, validation |-> "none",
     destroyed |-> <<>>]

\* No update has been handled yet.
NoChat ==
    /\ conv = [h \in {"setkey", "pskey", "destroy", "login"} |->
                  [k \in Chats \X UserIds |-> END]]
    /\ user_data = [u \in UserIds |-> EmptyDict]
    /\ shown = [k \in Chats \X UserIds |-> 0]
    /\ event = NoEvent

\* The monitor script has just started: its globals as the module sets
\* them, an empty job queue.
NoMonitor ==
    /\ is_monitoring = FALSE
    /\ last_check_result = None
    /\ jobs = [c \in Chats |-> 0]
    /\ created = [c \in Chats |-> 0]

\* A call starts when the previous one has returned.
Idle == last.op = "idle" /\ nops < MaxOps

\* The frame of every call: the counter, the snapshot, the settings.
Frame(call) ==
    /\ nops' = nops + 1
    /\ prev' = Storage
    /\ last' = call
    /\ UNCHANGED <<settings, raceVars, chatVars, monitorVars>>

\* A call of the registry: it leaves the shape of the table alone.
Step(pg, json, call) ==
    /\ Frame(call)
    /\ pgTable' = pg
    /\ jsonFile' = json
    /\ UNCHANGED pgSchema

ReadStep(call) == Step(pgTable, jsonFile, call)

\* set_named_key / ps_set_named_key
_ns_set_named_key(user_id, ns, name, token, io) ==
    /\ Idle
    /\ LET data  == SetNamedKeyData(_load(user_id, io), ns, name, token)
           saved == _save(user_id, data, io)
       IN  IF LoadRaises(user_id, io)
           THEN ReadStep(Call("set_named_key", user_id, ns, name, token, io,
                              Raised))
           ELSE Step(saved.pg, saved.json,
                     SaveCall("set_named_key", user_id, ns, name, token, io,
                              IF saved.raised THEN Raised ELSE Returned(None),
                              data))

\* delete_named_key / ps_delete_named_key
_ns_delete_named_key(user_id, ns, name, io) ==
    /\ Idle
    /\ LET loaded == _load(user_id, io)
           data   == DeleteNamedKeyData(loaded, ns, name)
           saved  == _save(user_id, data, io)
       IN  IF LoadRaises(user_id, io)
           THEN ReadStep(Call("delete_named_key", user_id, ns, name, None, io,
                              Raised))
           ELSE IF name \notin KeyNames(LoadedKeys(loaded, ns))
           THEN ReadStep(Call("delete_named_key", user_id, ns, name, None, io,
                              Returned(FALSE)))
           ELSE Step(saved.pg, saved.json,
                     SaveCall("delete_named_key", user_id, ns, name, None, io,
                              IF saved.raised THEN Raised ELSE Returned(TRUE),
                              data))

\* set_active_key / ps_set_active_key
_ns_set_active_key(user_id, ns, name, io) ==
    /\ Idle
    /\ LET loaded == _load(user_id, io)
           data   == SetActiveKeyData(loaded, ns, name)
           saved  == _save(user_id, data, io)
       IN  IF LoadRaises(user_id, io)
           THEN ReadStep(Call("set_active_key", user_id, ns, name, None, io,
                              Raised))
           ELSE IF name \notin KeyNames(LoadedKeys(loaded, ns))
           THEN ReadStep(Call("set_active_key", user_id, ns, name, None, io,
                              Returned(FALSE)))
           ELSE Step(saved.pg, saved.json,
                     SaveCall("set_active_key", user_id, ns, name, None, io,
                              IF saved.raised THEN Raised ELSE Returned(TRUE),
                              data))

\* The outcome of a call that only loads: the exception of _load, or the
\* value the call computes from the loaded record.
ReadOut(user_id, io, value) ==
    IF LoadRaises(user_id, io) THEN Raised ELSE Returned(value)

\* Mutant: the read saves the record it loaded, migrated.
_ns_get_all_keys_Persist(user_id, ns, io) ==
    /\ Idle
    /\ LET data  == _load(user_id, io)
           saved == _save(user_id, data, [io EXCEPT !.w = "ok"])
       IN  Step(saved.pg, saved.json,
                Call("get_all_keys", user_id, ns, None, None, io,
                     ReadOut(user_id, io, LoadedKeys(data, ns))))

\* get_all_keys / ps_get_all_keys
_ns_get_all_keys(user_id, ns, io) ==
    /\ Idle
    /\ ReadStep(Call("get_all_keys", user_id, ns, None, None, io,
                     ReadOut(user_id, io, LoadedKeys(_load(user_id, io), ns))))

\* get_active_name / ps_get_active_name
_ns_get_active_name(user_id, ns, io) ==
    /\ Idle
    /\ ReadStep(Call("get_active_name", user_id, ns, None, None, io,
                     ReadOut(user_id, io, LoadedActive(_load(user_id, io), ns))))

\* get_active_token / ps_get_active_token
_ns_get_active_token(user_id, ns, io) ==
    /\ Idle
    /\ ReadStep(Call("get_active_token", user_id, ns, None, None, io,
                     ReadOut(user_id, io,
                             LoadedActiveToken(_load(user_id, io), ns))))

\* has_any_key / ps_has_any_key: bool(get_all_keys(user_id))
has_any_key(user_id, ns, io) ==
    /\ Idle
    /\ ReadStep(Call("has_any_key", user_id, ns, None, None, io,
                     ReadOut(user_id, io,
                             LoadedKeys(_load(user_id, io), ns) # EmptyDict)))

\* Mutant: the process-wide token is preferred to the user's active token.
EffectiveToken_EnvFirst(tok, env) ==
    IF env # "" THEN env ELSE IF Truthy(tok) THEN tok ELSE None

\* The token get_token / get_ps_token answer with: tok is the active token,
\* env the process-wide token of the settings.
EffectiveToken(tok, env) ==
    IF Truthy(tok) THEN tok ELSE IF env # "" THEN env ELSE None

\* env is the value of settings.DO_API_TOKEN the call reads; last.token
\* records it.  get_active_token is called outside the try.
get_token(user_id, env, io) ==
    /\ Idle
    /\ ReadStep(Call("get_token", user_id, "do", None, env, io,
                     ReadOut(user_id, io,
                             EffectiveToken(
                                 LoadedActiveToken(_load(user_id, io), "do"),
                                 env))))

\* env is the value of settings.PS_API_TOKEN the call reads.
get_ps_token(user_id, env, io) ==
    /\ Idle
    /\ ReadStep(Call("get_token", user_id, "ps", None, env, io,
                     ReadOut(user_id, io,
                             EffectiveToken(
                                 LoadedActiveToken(_load(user_id, io), "ps"),
                                 env))))

\* delete_user_key: the user's whole row or file entry; a raised error is
\* answered with False.  DELETE FROM user_api_keys names no column but
\* user_id: it raises when the table is missing and deletes the row of an
\* old table.
delete_user_key(user_id, io) ==
    /\ Idle
    /\ IF _use_postgres
       THEN IF io.w = "ok" /\ pgSchema.table = "new"
            THEN Step(_pg_delete_user(user_id), jsonFile,
                      Call("delete_user_key", user_id, None, None, None, io,
                           Returned(TRUE)))
            ELSE IF io.w = "ok" /\ pgSchema.table = "old"
            THEN /\ Frame(Call("delete_user_key", user_id, None, None, None,
                               io, Returned(TRUE)))
                 /\ pgSchema' = [pgSchema EXCEPT !.token = Pop(@, user_id)]
                 /\ UNCHANGED <<pgTable, jsonFile>>
            ELSE ReadStep(Call("delete_user_key", user_id, None, None, None, io,
                               Returned(FALSE)))
       ELSE Step(pgTable, _json_delete_user(user_id, io.r2, io.w),
                 Call("delete_user_key", user_id, None, None, None, io,
                      Returned(TRUE)))

\* init_storage: under PostgreSQL _pg_init runs in one transaction, and any
\* exception (no connection, a failed statement: the transaction is rolled
\* back) is logged and swallowed; under the file backend nothing is done.
init_storage(io) ==
    /\ Idle
    /\ Frame(Call("init_storage", 0, None, None, None, io, Returned(None)))
    /\ IF _use_postgres /\ io.w = "ok"
       THEN /\ pgSchema' = _pg_init.schema
            /\ pgTable' = _pg_init.pg
            /\ UNCHANGED jsonFile
       ELSE UNCHANGED <<pgSchema, pgTable, jsonFile>>

\* The call returns: its caller has the result, the store keeps no memory
\* of the call.
Return ==
    /\ last.op # "idle"
    /\ last' = NoCall
    /\ prev' = Storage
    /\ UNCHANGED <<settings, pgSchema, pgTable, jsonFile, nops>>
    /\ UNCHANGED <<raceVars, chatVars, monitorVars>>

(***************************************************************************)
(* The specification: the store starts empty (no row, no file).            *)
(***************************************************************************)
SettingsSet == [DATABASE_URL : DatabaseUrls]

EmptyFile == [state |-> "missing", data |-> EmptyDict]

Init ==
    /\ settings \in SettingsSet
    /\ pgSchema = NewSchema
    /\ pgTable = EmptyDict
    /\ jsonFile = EmptyFile
    /\ prev = Storage
    /\ last = NoCall
    /\ nops = 0
    /\ NoOverlap
    /\ NoChat
    /\ NoMonitor

Next ==
    \/ Idle /\ \E u \in UserIds, ns \in Namespaces, n \in Names, t \in Tokens,
                  io \in WriteIo : _ns_set_named_key(u, ns, n, t, io)
    \/ Idle /\ \E u \in UserIds, ns \in Namespaces, n \in Names, io \in WriteIo :
                  _ns_delete_named_key(u, ns, n, io)
    \/ Idle /\ \E u \in UserIds, ns \in Namespaces, n \in Names, io \in WriteIo :
                  _ns_set_active_key(u, ns, n, io)
    \/ Idle /\ \E u \in UserIds, ns \in Namespaces, io \in ReadIo :
                  _ns_get_all_keys(u, ns, io)
    \/ Idle /\ \E u \in UserIds, ns \in Namespaces, io \in ReadIo :
                  _ns_get_active_name(u, ns, io)
    \/ Idle /\ \E u \in UserIds, ns \in Namespaces, io \in ReadIo :
                  _ns_get_active_token(u, ns, io)
    \/ Idle /\ \E u \in UserIds, ns \in Namespaces, io \in ReadIo :
                  has_any_key(u, ns, io)
    \/ Idle /\ \E u \in UserIds, env \in EnvDoTokens, io \in ReadIo :
                  get_token(u, env, io)
    \/ Idle /\ \E u \in UserIds, env \in {"", "env_ps"}, io \in ReadIo :
                  get_ps_token(u, env, io)
    \/ Idle /\ \E u \in UserIds, io \in {x \in WriteIo : x.r1} : delete_user_key(u, io)
    \/ Return

Spec == Init /\ [][Next]_vars

(***************************************************************************)
(* A store written by the second-generation code: user 1 holds a flat      *)
(* keys/active document, in the shapes _migrate_if_needed provides for     *)
(* (both fields, "active" missing, "keys" missing).                        *)
(***************************************************************************)
LegacyKeys == << <<"Work", "tok_abc">>, <<"Home", "tok_xyz">> >>

InitLegacy ==
    LET
        LegacyDocs ==
            { [keys |-> LegacyKeys, active |-> "Work"],
              [keys |-> LegacyKeys],
              [active |-> "Work"] }
    IN
    /\ settings \in SettingsSet
    /\ pgSchema = NewSchema
    /\ \E doc \in LegacyDocs :
          IF _use_postgres
          THEN /\ pgTable = (1 :> Jsonb(doc))
               /\ jsonFile = EmptyFile
          ELSE /\ pgTable = EmptyDict
               /\ jsonFile = [state |-> "ok", data |-> (Str(1) :> doc)]
    /\ prev = Storage
    /\ last = NoCall
    /\ nops = 0
    /\ NoOverlap
    /\ NoChat
    /\ NoMonitor

SpecLegacy == InitLegacy /\ [][Next]_vars

(***************************************************************************)
(* A store in use: user 1 has saved three DigitalOcean keys with           *)
(* set_named_key, "Work" first (so "Work" is active), then "Home", then    *)
(* "Default".  The file keeps the order of insertion, the JSONB column     *)
(* its own.                                                                *)
(***************************************************************************)

InitStocked ==
    LET
        StockedDoc ==
            [do |-> [keys   |-> << <<"Work", "tok_abc">>, <<"Home", "tok_xyz">>,
                                   <<"Default", "tok_abc">> >>,
                     active |-> "Work"],
             ps |-> [keys |-> EmptyDict]]
    IN
    /\ settings \in SettingsSet
    /\ pgSchema = NewSchema
    /\ IF _use_postgres
       THEN /\ pgTable = (1 :> Jsonb(StockedDoc))
            /\ jsonFile = EmptyFile
       ELSE /\ pgTable = EmptyDict
            /\ jsonFile = [state |-> "ok", data |-> (Str(1) :> StockedDoc)]
    /\ prev = Storage
    /\ last = NoCall
    /\ nops = 0
    /\ NoOverlap
    /\ NoChat
    /\ NoMonitor

SpecStocked == InitStocked /\ [][Next]_vars

(***************************************************************************)
(* A store that holds, for user 1, a document none of the current code's   *)
(* writes produces: written by an earlier generation of the bot, or by     *)
(* hand.  A first-generation entry is the user's bare token (the strings   *)
(* are a token of the model and one with the prefix of a DigitalOcean      *)
(* token, dop_v1_); the other documents carry one namespace wrapper only,  *)
(* a wrapper next to flat keys, a number, a list, unrelated fields.        *)
(***************************************************************************)
MaxRawOps == 2

InitRaw ==
    LET
        RawDocs ==
            LET
                FirstGenDocs ==
                    LET
                        BareTokens == {"tok_abc", "dop_v1_abc"}
                    IN
                    {("$str" :> t) : t \in BareTokens}
            IN
            FirstGenDocs \cup
            { [keys |-> LegacyKeys, active |-> "Work"],
              [do |-> [keys |-> LegacyKeys, active |-> "Work"]],
              [ps |-> [keys |-> EmptyDict], keys |-> LegacyKeys, active |-> "Work"],
              ("$num" :> 42),
              ("$list" :> <<"tok_abc">>),
              [token |-> "tok_abc"] }
    IN
    /\ settings \in SettingsSet
    /\ pgSchema = NewSchema
    /\ \E doc \in RawDocs :
          IF _use_postgres
          THEN /\ pgTable = (1 :> Jsonb(doc))
               /\ jsonFile = EmptyFile
          ELSE /\ pgTable = EmptyDict
               /\ jsonFile = [state |-> "ok", data |-> (Str(1) :> doc)]
    /\ prev = Storage
    /\ last = NoCall
    /\ nops = 0
    /\ NoOverlap
    /\ NoChat
    /\ NoMonitor

NextRaw == nops < MaxRawOps /\ Next

SpecRaw == InitRaw /\ [][NextRaw]_vars

(***************************************************************************)
(* A deployment at its first start with the current code: the database     *)
(* has no user_api_keys table yet, or the table of the first generation,   *)
(* (user_id, token), with a row for each user whose token may be NULL.     *)
(* init_storage runs at every start of the process (src/bot/main.py), the  *)
(* calls of the registry in between.                                       *)
(***************************************************************************)

InitFirstStart ==
    LET
        OldTokenColumns == [UserIds -> Tokens \cup {None}]
    IN
    /\ settings \in SettingsSet
    /\ \/ pgSchema = [table |-> "none", token |-> EmptyDict]
       \/ /\ _use_postgres
          /\ \E t \in OldTokenColumns : pgSchema = [table |-> "old", token |-> t]
    /\ pgTable = EmptyDict
    /\ jsonFile = EmptyFile
    /\ prev = Storage
    /\ last = NoCall
    /\ nops = 0
    /\ NoOverlap
    /\ NoChat
    /\ NoMonitor

NextStart ==
    \/ Idle /\ \E io \in [r1 : {TRUE}, r2 : {TRUE}, w : {"ok", "fail"}] : init_storage(io)
    \/ Next

SpecStart == InitFirstStart /\ [][NextStart]_vars

(***************************************************************************)
(* What the claims observe.  StoredDoc is the document a storage holds     *)
(* for a user ({} when it holds none, or when the file does not parse);    *)
(* StoredKeys / StoredActive are the keys and the active name the          *)
(* registry reads from it, in the current storage and in the storage       *)
(* before the last call.                                                   *)
(***************************************************************************)
StoredDoc(storage, user_id) ==
    IF _use_postgres
    THEN Get(storage.pg, user_id, EmptyDict)
    ELSE IF storage.json.state = "ok"
         THEN Get(storage.json.data, Str(user_id), EmptyDict)
         ELSE EmptyDict

\* The flat second-generation document is read as the "do" namespace.
StoredNs(storage, user_id, ns) ==
    LET doc == StoredDoc(storage, user_id)
    IN  IF ns \in DOMAIN doc THEN doc[ns]
        ELSE IF ns = "do" /\ "ps" \notin DOMAIN doc THEN doc
        ELSE EmptyDict

StoredKeys(storage, user_id, ns) ==
    Get(StoredNs(storage, user_id, ns), "keys", EmptyDict)

StoredActive(storage, user_id, ns) ==
    Get(StoredNs(storage, user_id, ns), "active", None)

HasRecord(storage, user_id) ==
    IF _use_postgres THEN user_id \in DOMAIN storage.pg
    ELSE storage.json.state = "ok" /\ Str(user_id) \in DOMAIN storage.json.data

\* active is None iff keys is empty, and a non-None active is a stored name.
NsConsistent(storage, user_id, ns) ==
    LET keys   == StoredKeys(storage, user_id, ns)
        active == StoredActive(storage, user_id, ns)
    IN  /\ (active = None) <=> (keys = EmptyDict)
        /\ active # None => active \in KeyNames(keys)

SameNamespace(n1, n2) ==
    LET
        \* Python's == on two "keys" mappings, two namespaces, two records: the
        \* same keys with the same values, in whatever order.
        SameKeys(k1, k2) ==
            {k1[i] : i \in 1..Len(k1)} = {k2[i] : i \in 1..Len(k2)}
    IN
    /\ DOMAIN n1 = DOMAIN n2
    /\ \A f \in DOMAIN n1 :
          IF f = "keys" THEN SameKeys(n1[f], n2[f]) ELSE n1[f] = n2[f]

SameRecord(d1, d2) ==
    /\ DOMAIN d1 = DOMAIN d2
    /\ \A ns \in DOMAIN d1 : SameNamespace(d1[ns], d2[ns])

Mutators == {"set_named_key", "delete_named_key", "set_active_key"}

ReadOps == {"get_all_keys", "get_active_name", "get_active_token",
            "has_any_key", "get_token"}

\* The last call returned v (and did not raise).
ReturnedValue(v) == ~last.out.raised /\ last.out.value = v

\* The last call's read of the storage failed: an I/O or connection error,
\* or a file that does not parse.
ReadFailed ==
    \/ ~last.io.r1
    \/ ~_use_postgres /\ prev.json.state = "corrupt"

(***************************************************************************)
(* C1.  Starting from an empty store, after any sequence of set_named_key, *)
(* delete_named_key, set_active_key and delete_user_key calls (any user,   *)
(* either namespace), every user's namespace has active = None exactly     *)
(* when keys is empty, and a non-None active is a name present in keys.    *)
(***************************************************************************)
C1_ActiveIffKeys ==
    \A u \in UserIds, ns \in Namespaces : NsConsistent(Storage, u, ns)

\* The active key was deleted while another key remained, and the pointer
\* moved to a remaining key.
C1_Witness ==
    /\ last.op = "delete_named_key"
    /\ ReturnedValue(TRUE)
    /\ StoredActive(prev, last.user_id, last.ns) = last.name
    /\ StoredKeys(Storage, last.user_id, last.ns) # EmptyDict
    /\ last.name \notin KeyNames(StoredKeys(Storage, last.user_id, last.ns))

(***************************************************************************)
(* C2.  After any successful mutating call (set_named_key,                 *)
(* delete_named_key, set_active_key) the saved namespace has active =      *)
(* None iff keys is empty and active in keys, whatever document was stored *)
(* before the call, a migrated second-generation document whose active     *)
(* field is missing or names no stored key included.                       *)
(***************************************************************************)
\* The last call was a mutating call that wrote its record.
Wrote ==
    /\ last.op \in Mutators
    /\ ~last.out.raised
    /\ last.op # "set_named_key" => last.out.value
    /\ last.io.w = "ok"

C2_InvariantRestored ==
    Wrote => NsConsistent(Storage, last.user_id, last.ns)

(***************************************************************************)
(* What the read calls answer in the current state when their read of the  *)
(* storage succeeds.                                                       *)
(***************************************************************************)
OkRead == [r1 |-> TRUE, r2 |-> TRUE, w |-> "none"]

NowAllKeys(user_id, ns) == LoadedKeys(_load(user_id, OkRead), ns)

NowActiveName(user_id, ns) == LoadedActive(_load(user_id, OkRead), ns)

NowActiveToken(user_id, ns) == LoadedActiveToken(_load(user_id, OkRead), ns)

\* The last call was op, returned normally, and its write took effect.
Saved(op) ==
    /\ last.op = op
    /\ ~last.out.raised
    /\ last.op # "set_named_key" => last.out.value
    /\ last.io.w = "ok"

\* Every entry other than name is stored as it was before the last call.
OthersKept(user_id, ns, name) ==
    LET before == StoredKeys(prev, user_id, ns)
        after  == StoredKeys(Storage, user_id, ns)
    IN  /\ KeyNames(after) \ {name} = KeyNames(before) \ {name}
        /\ \A n \in KeyNames(before) \ {name} :
              KeysGet(after, n) = KeysGet(before, n)

(***************************************************************************)
(* C3.  First-key-is-active rule: after set_named_key(name, token) on a    *)
(* namespace that had zero keys, get_active_name answers name,             *)
(* get_active_token answers token and get_all_keys answers exactly         *)
(* {name: token}.  (Stated of a call whose write took effect.)             *)
(***************************************************************************)
C3_FirstKeyIsActive ==
    (Saved("set_named_key") /\ StoredKeys(prev, last.user_id, last.ns) = EmptyDict)
    => /\ NowActiveName(last.user_id, last.ns) = last.name
       /\ NowActiveToken(last.user_id, last.ns) = last.token
       /\ NowAllKeys(last.user_id, last.ns) = << <<last.name, last.token>> >>

\* The rule fires on a namespace emptied by a delete, in a record that
\* exists already.
C3_Witness ==
    /\ Saved("set_named_key")
    /\ HasRecord(prev, last.user_id)
    /\ "active" \in DOMAIN StoredNs(prev, last.user_id, last.ns)
    /\ StoredKeys(prev, last.user_id, last.ns) = EmptyDict
    /\ NowActiveName(last.user_id, last.ns) = last.name

(***************************************************************************)
(* C4.  set_named_key(name, token) on a namespace that already has a key   *)
(* leaves the active name unchanged, sets keys[name] = token (overwriting  *)
(* an entry of that name) and leaves every other entry unchanged.          *)
(* (Stated of a call whose read succeeded and whose write took effect.)    *)
(***************************************************************************)
C4_AddKeepsActive ==
    (/\ Saved("set_named_key")
     /\ last.io.r1
     /\ StoredKeys(prev, last.user_id, last.ns) # EmptyDict)
    => /\ StoredActive(Storage, last.user_id, last.ns)
            = StoredActive(prev, last.user_id, last.ns)
       /\ KeysGet(StoredKeys(Storage, last.user_id, last.ns), last.name) = last.token
       /\ OthersKept(last.user_id, last.ns, last.name)

\* A second key is added under a new name: the first one stays active.
C4_Witness ==
    /\ Saved("set_named_key")
    /\ last.io.r1
    /\ StoredKeys(prev, last.user_id, last.ns) # EmptyDict
    /\ last.name \notin KeyNames(StoredKeys(prev, last.user_id, last.ns))
    /\ StoredActive(Storage, last.user_id, last.ns) # last.name
    /\ Len(StoredKeys(Storage, last.user_id, last.ns)) = 2

(***************************************************************************)
(* C6.  set_active_key(name) returns true exactly when name is a key of    *)
(* the namespace; when it returns false the persisted store is unchanged;  *)
(* when it returns true the active name is name and keys is unchanged.     *)
(* (The first part is stated of a call whose read succeeded, the last of   *)
(* a call whose write took effect.)                                        *)
(***************************************************************************)
C6_SetActive ==
    last.op = "set_active_key" =>
       /\ (~last.out.raised /\ last.io.r1) =>
             (last.out.value <=>
                 last.name \in KeyNames(StoredKeys(prev, last.user_id, last.ns)))
       /\ ReturnedValue(FALSE) => Storage = prev
       /\ Saved("set_active_key") =>
             /\ NowActiveName(last.user_id, last.ns) = last.name
             /\ StoredKeys(Storage, last.user_id, last.ns)
                   = StoredKeys(prev, last.user_id, last.ns)

\* The active name is switched to another stored key.
C6_Witness ==
    /\ Saved("set_active_key")
    /\ StoredActive(prev, last.user_id, last.ns) # last.name
    /\ StoredActive(Storage, last.user_id, last.ns) = last.name

(***************************************************************************)
(* C7.  delete_named_key(name) returns true exactly when name was a key of *)
(* the namespace before the call; when it returns false the persisted      *)
(* store is unchanged; when it returns true exactly the entry name is      *)
(* removed and every other entry keeps its token.  (The first part is      *)
(* stated of a call whose read succeeded, the last of a call whose write   *)
(* took effect.)                                                           *)
(***************************************************************************)
C7_Delete ==
    last.op = "delete_named_key" =>
       /\ (~last.out.raised /\ last.io.r1) =>
             (last.out.value <=>
                 last.name \in KeyNames(StoredKeys(prev, last.user_id, last.ns)))
       /\ ReturnedValue(FALSE) => Storage = prev
       /\ Saved("delete_named_key") =>
             /\ last.name \notin KeyNames(NowAllKeys(last.user_id, last.ns))
             /\ OthersKept(last.user_id, last.ns, last.name)

\* One of two stored keys is deleted, the other one stays.
C7_Witness ==
    /\ Saved("delete_named_key")
    /\ Len(StoredKeys(prev, last.user_id, last.ns)) = 2
    /\ Len(StoredKeys(Storage, last.user_id, last.ns)) = 1

(***************************************************************************)
(* C5.  delete_named_key(name) where name is the active key: if other keys *)
(* remain, the first remaining key in iteration order becomes active, so   *)
(* get_active_name is never None while keys is non-empty; if it was the    *)
(* only key, keys becomes empty and get_active_name answers None.          *)
(* Deleting a non-active key leaves active unchanged.  (Stated of a call   *)
(* whose write took effect.)                                               *)
(***************************************************************************)
C5_DeleteActive ==
    Saved("delete_named_key") =>
       LET before == StoredKeys(prev, last.user_id, last.ns)
           was    == StoredActive(prev, last.user_id, last.ns)
           rest   == SelectSeq(before, LAMBDA p : p[1] # last.name)
           active == NowActiveName(last.user_id, last.ns)
       IN  /\ (was = last.name /\ rest # <<>>) => active = rest[1][1]
           /\ (was = last.name /\ rest = <<>>) =>
                 /\ NowAllKeys(last.user_id, last.ns) = EmptyDict
                 /\ active = None
           /\ was # last.name => active = was
           /\ NowAllKeys(last.user_id, last.ns) # EmptyDict => active # None

\* The active key is deleted while two other keys remain.
C5_Witness ==
    /\ Saved("delete_named_key")
    /\ StoredActive(prev, last.user_id, last.ns) = last.name
    /\ Len(StoredKeys(Storage, last.user_id, last.ns)) = 2
    /\ NowActiveName(last.user_id, last.ns)
          = StoredKeys(Storage, last.user_id, last.ns)[1][1]

(***************************************************************************)
(* C8.  get_token / get_ps_token answer the user's active token of that    *)
(* namespace when one exists, otherwise the process-wide token when it is  *)
(* non-empty, otherwise None; never a token stored under a non-active      *)
(* name, in the other namespace or for another user.  (Stated of a call    *)
(* whose read succeeded.)                                                  *)
(***************************************************************************)
C8_EffectiveToken ==
    (last.op = "get_token" /\ ~ReadFailed) =>
       LET keys   == StoredKeys(Storage, last.user_id, last.ns)
           active == StoredActive(Storage, last.user_id, last.ns)
           env    == last.token
           v      == last.out.value
       IN  /\ ~last.out.raised
           /\ \A i \in 1..Len(keys) : keys[i][1] = active => v = keys[i][2]
           /\ (active = None /\ env # "") => v = env
           /\ (active = None /\ env = "") => v = None
           /\ v \notin {None, env} =>
                 \E i \in 1..Len(keys) : keys[i] = <<active, v>>

\* The active token is answered although a process-wide token is set, while
\* a different token is stored in the other namespace or for the other user.
C8_Witness ==
    /\ last.op = "get_token"
    /\ ~ReadFailed
    /\ last.token # ""
    /\ last.out.value \in Tokens
    /\ \E u \in UserIds, ns \in Namespaces :
          /\ <<u, ns>> # <<last.user_id, last.ns>>
          /\ StoredKeys(Storage, u, ns) # EmptyDict
          /\ StoredKeys(Storage, u, ns)[1][2] # last.out.value

(***************************************************************************)
(* C9.  When the backend write fails during a mutating call                *)
(* (set_named_key, delete_named_key, set_active_key, delete_user_key),     *)
(* under either backend, the failure surfaces to the caller as an error -  *)
(* the call does not report success - and the persisted record is left as  *)
(* it was before the call.                                                 *)
(***************************************************************************)
C9_WriteFailureSurfaces ==
    LET
        \* The last call raised, or (delete_user_key) answered False.
        ReportsFailure ==
            \/ last.out.raised
            \/ last.op = "delete_user_key" /\ ~last.out.value
        \* The last call reached its write.
        WriteAttempted ==
            \/ last.op \in {"set_named_key", "delete_user_key"}
            \/ /\ last.op \in {"delete_named_key", "set_active_key"}
               /\ (last.out.raised \/ last.out.value)
    IN
    (WriteAttempted /\ last.io.w \in {"fail", "torn"})
    => (ReportsFailure /\ Storage = prev)

(***************************************************************************)
(* C10.  When the backend read fails (file unreadable or unparseable,      *)
(* database unreachable), get_all_keys, get_active_name, get_active_token, *)
(* has_any_key and get_token / get_ps_token raise nothing and answer as    *)
(* for a user with no data: {}, None, None, False and the process-wide     *)
(* token.                                                                  *)
(***************************************************************************)
C10_ReadFailureIsNoData ==
    ReadFailed =>
       /\ last.op = "get_all_keys" => ReturnedValue(EmptyDict)
       /\ last.op = "get_active_name" => ReturnedValue(None)
       /\ last.op = "get_active_token" => ReturnedValue(None)
       /\ last.op = "has_any_key" => ReturnedValue(FALSE)
       /\ last.op = "get_token" =>
             ReturnedValue(IF last.token # "" THEN last.token ELSE None)

\* The read fails for a user whose namespace holds an active key, and the
\* process-wide token is answered.
C10_Witness ==
    /\ last.op = "get_token"
    /\ ReadFailed
    /\ last.token # ""
    /\ ReturnedValue(last.token)
    /\ HasRecord(prev, last.user_id)
    /\ StoredActive(prev, last.user_id, last.ns) # None

(***************************************************************************)
(* C11.  For every user id that has no record - never written, or removed  *)
(* by delete_user_key - get_all_keys answers {}, get_active_name and       *)
(* get_active_token answer None and has_any_key answers False, in both     *)
(* namespaces; and a read call does not create a record for the user.      *)
(***************************************************************************)
C11_UnwrittenUserIsEmpty ==
    /\ \A u \in UserIds, ns \in Namespaces :
          ~HasRecord(Storage, u) =>
             /\ NowAllKeys(u, ns) = EmptyDict
             /\ NowActiveName(u, ns) = None
             /\ NowActiveToken(u, ns) = None
    /\ (last.op \in ReadOps /\ ~HasRecord(prev, last.user_id)) =>
          /\ last.op = "get_all_keys" => ReturnedValue(EmptyDict)
          /\ last.op = "get_active_name" => ReturnedValue(None)
          /\ last.op = "get_active_token" => ReturnedValue(None)
          /\ last.op = "has_any_key" => ReturnedValue(FALSE)
          /\ ~HasRecord(Storage, last.user_id)

\* A user's record is removed by delete_user_key while the other user keeps
\* keys, and the reads of the removed user answer as for no data.
C11_Witness ==
    /\ last.op = "delete_user_key"
    /\ HasRecord(prev, last.user_id)
    /\ ~HasRecord(Storage, last.user_id)
    /\ \E v \in UserIds : StoredKeys(Storage, v, "do") # EmptyDict
    /\ NowAllKeys(last.user_id, "do") = EmptyDict
    /\ NowActiveName(last.user_id, "do") = None

(***************************************************************************)
(* C12.  Under each backend, _save(user_id, record) followed by a load of  *)
(* user_id returns a record equal to the one saved (equal as Python        *)
(* compares dicts: the same names, tokens and active name), the two        *)
(* backends store equal documents for the same saved record, and after a   *)
(* delete both answer the load with {}.  (Stated of a write that took      *)
(* effect.)                                                                *)
(***************************************************************************)
C12_RoundTrip ==
    /\ Wrote =>
          /\ SameRecord(_raw_load(last.user_id, OkRead), last.saved)
          /\ SameRecord(_pg_save(last.user_id, last.saved)[last.user_id],
                        _json_save(last.user_id, last.saved, TRUE, "ok")
                            .data[Str(last.user_id)])
    /\ Saved("delete_user_key") =>
          DOMAIN _raw_load(last.user_id, OkRead) = {}

\* A record with two keys is saved to PostgreSQL, which stores the names in
\* another order than the one they were saved in.
C12_Witness ==
    /\ Wrote
    /\ _use_postgres
    /\ Len(last.saved[last.ns].keys) = 2
    /\ _raw_load(last.user_id, OkRead)[last.ns].keys # last.saved[last.ns].keys
    /\ SameRecord(_raw_load(last.user_id, OkRead), last.saved)

(***************************************************************************)
(* C13.  Once a user's record is stored it stays in the store through      *)
(* set_named_key, delete_named_key and set_active_key calls, the delete of *)
(* the user's last key included; a record leaves the store only by         *)
(* delete_user_key for that user, which removes the keys of both           *)
(* namespaces at once.  (Stated of calls whose file write is not cut       *)
(* short and, for the records of other users, whose file read succeeds.)   *)
(***************************************************************************)
C13_RecordPersists ==
    /\ (last.op \in Mutators /\ last.io.w # "torn" /\ HasRecord(prev, last.user_id))
          => HasRecord(Storage, last.user_id)
    /\ \A u \in UserIds :
          (/\ last.io.r2 /\ last.io.w # "torn"
           /\ HasRecord(prev, u) /\ ~HasRecord(Storage, u))
          => (last.op = "delete_user_key" /\ last.user_id = u)
    /\ Saved("delete_user_key") =>
          /\ ~HasRecord(Storage, last.user_id)
          /\ \A ns \in Namespaces : NowAllKeys(last.user_id, ns) = EmptyDict

\* The user's last key is deleted and the record, now without keys, stays.
C13_Witness ==
    /\ Saved("delete_named_key")
    /\ StoredKeys(prev, last.user_id, last.ns) # EmptyDict
    /\ \A ns \in Namespaces : StoredKeys(Storage, last.user_id, ns) = EmptyDict
    /\ HasRecord(Storage, last.user_id)

(***************************************************************************)
(* C14.  Loading a first-generation document (the user's bare token, no    *)
(* names) yields one key in the "do" namespace, named "Default", holding   *)
(* that token and active, and an empty "ps" namespace: the reads of the    *)
(* user answer so.                                                         *)
(***************************************************************************)
C14_FirstGenerationLoad ==
    (/\ last.op \in ReadOps \ {"get_token"}
     /\ ~ReadFailed
     /\ IsStr(StoredDoc(prev, last.user_id)))
    => LET tok     == StoredDoc(prev, last.user_id)["$str"]
           primary == last.ns = "do"
       IN  /\ ~last.out.raised
           /\ last.op = "get_all_keys" =>
                 last.out.value = IF primary THEN << <<"Default", tok>> >>
                                  ELSE EmptyDict
           /\ last.op = "get_active_name" =>
                 last.out.value = IF primary THEN "Default" ELSE None
           /\ last.op = "get_active_token" =>
                 last.out.value = IF primary THEN tok ELSE None
           /\ last.op = "has_any_key" => (last.out.value <=> primary)

(***************************************************************************)
(* C15.  As claimed: a stored document is treated as current (used as it   *)
(* is) only if it has both "do" and "ps" as top-level keys; any other      *)
(* document with a flat keys/active shape is wrapped, its keys and active  *)
(* become those of "do" and "ps" is empty, so that no stored key is        *)
(* dropped or hidden.                                                      *)
(***************************************************************************)
C15_CurrentOnlyIfBoth ==
    \A u \in UserIds :
       LET raw  == _raw_load(u, OkRead)
           both == "do" \in DOMAIN raw /\ "ps" \in DOMAIN raw
           flat == "keys" \in DOMAIN raw \/ "active" \in DOMAIN raw
       IN  IsDict(raw) =>
              /\ _migrate_if_needed(raw) = raw => both
              /\ (~both /\ flat) =>
                    /\ NowAllKeys(u, "do") = Get(raw, "keys", EmptyDict)
                    /\ NowActiveName(u, "do") = Get(raw, "active", None)
                    /\ NowAllKeys(u, "ps") = EmptyDict

(***************************************************************************)
(* C15, amended.  A stored document is treated as current exactly when it  *)
(* has "do" or "ps" as a top-level key: the keys and the active name of    *)
(* each wrapper it has are answered, a wrapper it lacks is answered as     *)
(* empty, and flat keys/active fields next to a wrapper are not read.  A   *)
(* document with neither wrapper and a flat keys/active shape is wrapped:  *)
(* its keys and active become those of "do", "ps" is empty.                *)
(***************************************************************************)
C15_CurrentIfEither ==
    \A u \in UserIds :
       LET raw    == _raw_load(u, OkRead)
           either == "do" \in DOMAIN raw \/ "ps" \in DOMAIN raw
           flat   == "keys" \in DOMAIN raw \/ "active" \in DOMAIN raw
       IN  IsDict(raw) =>
              /\ _migrate_if_needed(raw) = raw <=> either
              /\ either =>
                    \A ns \in Namespaces :
                       /\ NowAllKeys(u, ns)
                             = Get(Get(raw, ns, EmptyDict), "keys", EmptyDict)
                       /\ NowActiveName(u, ns)
                             = Get(Get(raw, ns, EmptyDict), "active", None)
              /\ (~either /\ flat) =>
                    /\ NowAllKeys(u, "do") = Get(raw, "keys", EmptyDict)
                    /\ NowActiveName(u, "do") = Get(raw, "active", None)
                    /\ NowAllKeys(u, "ps") = EmptyDict

\* A document with the "do" wrapper only is read: its keys are answered.
C15_Witness ==
    /\ last.op = "get_all_keys"
    /\ last.ns = "do"
    /\ DOMAIN StoredDoc(prev, last.user_id) = {"do"}
    /\ ~last.out.raised
    /\ last.out.value # EmptyDict
    /\ last.out.value = StoredDoc(prev, last.user_id)["do"].keys

(***************************************************************************)
(* C16.  The load-time migration is idempotent: for every stored document  *)
(* d it accepts, migrate(migrate(d)) = migrate(d), and a document with     *)
(* both namespaces is returned unchanged; the same holds for the whole     *)
(* normalisation of _load (migration, then a keys mapping in each          *)
(* namespace): normalising a normalised record returns it unchanged.       *)
(***************************************************************************)
C16_MigrationIdempotent ==
    \A u \in UserIds :
       LET raw == _raw_load(u, OkRead)
           m   == _migrate_if_needed(raw)
           n   == EnsureNamespaces(m)
       IN  (~MigrateRaises(raw) /\ ~EnsureRaises(m)) =>
              /\ ~MigrateRaises(m)
              /\ _migrate_if_needed(m) = m
              /\ ("do" \in DOMAIN raw /\ "ps" \in DOMAIN raw) => m = raw
              /\ ~MigrateRaises(n)
              /\ ~EnsureRaises(_migrate_if_needed(n))
              /\ EnsureNamespaces(_migrate_if_needed(n)) = n

\* A flat second-generation document is read: the migration changes it, and
\* migrating the result changes nothing.
C16_Witness ==
    /\ last.op \in ReadOps
    /\ ~last.out.raised
    /\ LET raw == _raw_load(last.user_id, OkRead)
       IN  /\ DOMAIN raw = {"keys", "active"}
           /\ _migrate_if_needed(raw) # raw
           /\ _migrate_if_needed(_migrate_if_needed(raw)) = _migrate_if_needed(raw)

(***************************************************************************)
(* C17.  A stored document of none of the known shapes (a bare string, a   *)
(* number, a list, a mapping of unrelated fields) is loaded as an empty    *)
(* record: the reads answer {}, None, None, False, and no read or          *)
(* mutating call raises because of it (a call may raise for a failed       *)
(* PostgreSQL write only).                                                 *)
(***************************************************************************)
C17_MalformedIsEmpty ==
    LET
        Malformed(doc) ==
            \/ ~IsDict(doc)
            \/ /\ DOMAIN doc # {}
               /\ DOMAIN doc \cap {"do", "ps", "keys", "active"} = {}
    IN
    (/\ last.op \in ReadOps \cup Mutators
     /\ Malformed(StoredDoc(prev, last.user_id)))
    => /\ last.out.raised => (last.op \in Mutators /\ last.io.w = "fail")
       /\ last.op = "get_all_keys" => ReturnedValue(EmptyDict)
       /\ last.op = "get_active_name" => ReturnedValue(None)
       /\ last.op = "get_active_token" => ReturnedValue(None)
       /\ last.op = "has_any_key" => ReturnedValue(FALSE)

(***************************************************************************)
(* C18.  The load-time migration has no side effect on the storage: the    *)
(* read calls (get_all_keys, get_active_name, get_active_token,            *)
(* has_any_key, get_token / get_ps_token) leave the store as it was, also  *)
(* when the stored document has a legacy shape; the migrated shape is      *)
(* stored by the user's next mutating call that writes.                    *)
(***************************************************************************)
C18_ReadsNeverWrite ==
    /\ last.op \in ReadOps => Storage = prev
    /\ Wrote => {"do", "ps"} \subseteq DOMAIN StoredDoc(Storage, last.user_id)

\* A flat second-generation document is read, its keys are answered, and it
\* is still stored flat.
C18_Witness ==
    /\ last.op = "get_all_keys"
    /\ ~last.out.raised
    /\ last.out.value # EmptyDict
    /\ "keys" \in DOMAIN StoredDoc(Storage, last.user_id)
    /\ "do" \notin DOMAIN StoredDoc(Storage, last.user_id)

(***************************************************************************)
(* C19.  The table initialisation on a first-generation table (with the    *)
(* bare token column) converts every row whose token is not NULL into the  *)
(* document {"do": {"keys": {"Default": token}, "active": "Default"},      *)
(* "ps": {}}, keeps exactly one row per user id and drops the token        *)
(* column; no user's token is lost: it is the user's active "do" token.    *)
(***************************************************************************)
C19_LegacyTableConverted ==
    (/\ last.op = "init_storage"
     /\ _use_postgres
     /\ last.io.w = "ok"
     /\ prev.schema.table = "old")
    => /\ pgSchema = [table |-> "new", token |-> EmptyDict]
       /\ DOMAIN pgTable = DOMAIN prev.schema.token
       /\ \A u \in DOMAIN prev.schema.token :
             LET token == prev.schema.token[u]
             IN  token # None =>
                    /\ pgTable[u]
                          = [do |-> [keys   |-> << <<"Default", token>> >>,
                                     active |-> "Default"],
                             ps |-> EmptyDict]
                    /\ NowAllKeys(u, "do") = << <<"Default", token>> >>
                    /\ NowActiveName(u, "do") = "Default"
                    /\ NowActiveToken(u, "do") = token
                    /\ NowAllKeys(u, "ps") = EmptyDict

\* A table with a token for user 1 and NULL for user 2 is converted: user 1
\* has the token as active key, user 2 keeps a row without keys.
C19_Witness ==
    /\ last.op = "init_storage"
    /\ prev.schema.table = "old"
    /\ pgSchema.table = "new"
    /\ prev.schema.token[1] # None
    /\ prev.schema.token[2] = None
    /\ NowActiveToken(1, "do") = prev.schema.token[1]
    /\ 2 \in DOMAIN pgTable
    /\ NowAllKeys(2, "do") = EmptyDict

(***************************************************************************)
(* C20.  init_storage is idempotent: called again after it has succeeded   *)
(* (the table has the new shape) it changes no row and no column, the      *)
(* documents users saved after the first migration included; and it never  *)
(* raises, also when the database is unreachable, in which case it changes *)
(* nothing.                                                                *)
(***************************************************************************)
C20_InitIdempotent ==
    last.op = "init_storage" =>
       /\ ~last.out.raised
       /\ prev.schema.table = "new" => Storage = prev
       /\ last.io.w = "fail" => Storage = prev
       /\ ~_use_postgres => Storage = prev

\* init_storage runs again on a migrated table in which a user has saved a
\* key of their own since, and leaves it alone.
C20_Witness ==
    /\ last.op = "init_storage"
    /\ last.io.w = "ok"
    /\ _use_postgres
    /\ prev.schema.table = "new"
    /\ \E u \in UserIds :
          /\ KeyNames(StoredKeys(Storage, u, "do")) \cap Names # {}
          /\ "Default" \in KeyNames(StoredKeys(Storage, u, "do"))
    /\ Storage = prev

(***************************************************************************)
(* Calls that overlap in time.  The registry takes no lock and holds no    *)
(* transaction over a call: two processes that share the store (two        *)
(* instances of the bot on one database or one file) each run a call as    *)
(* its separate reads and writes of the storage.  A call of a process is   *)
(* its load (_load and the change in memory), then its save: the upsert    *)
(* under PostgreSQL, one statement; under the file backend the read of     *)
(* the whole file by _json_save, the open of the file for writing, which   *)
(* truncates it, and the write of the new contents.  The storage works.    *)
(***************************************************************************)
RaceReads == {"get_all_keys", "get_active_name"}

\* The record the call saves, computed from the one it loaded.
ChangedData(op, loaded, ns, name, token) ==
    CASE op = "set_named_key"    -> SetNamedKeyData(loaded, ns, name, token)
      [] op = "delete_named_key" -> DeleteNamedKeyData(loaded, ns, name)
      [] op = "set_active_key"   -> SetActiveKeyData(loaded, ns, name)
      [] OTHER                   -> loaded

RaceFrame ==
    UNCHANGED <<settings, pgSchema, prev, last, nops, chatVars, monitorVars>>

\* The call begins: data = _load(user_id), and the lines up to _save.
LoadStep(p, op, user_id, ns, name, token) ==
    LET
        \* The processes that have begun their save, or ended it.
        Saving ==
            {q \in Procs : calls[q].pc \in {"reread", "writing"}}
            \cup {writers[i] : i \in 1..Len(writers)}
        \* What the call answers when it ends after its load: a read its value,
        \* delete_named_key / set_active_key False for a name that is no key.
        LoadResult(o, d, n) ==
            CASE o = "get_all_keys"    -> LoadedKeys(d, n)
              [] o = "get_active_name" -> LoadedActive(d, n)
              [] OTHER                 -> FALSE
    IN
    /\ calls[p].pc = "start"
    /\ LET loaded == _load(user_id, OkRead)
           ends   == \/ op \in RaceReads
                     \/ /\ op \in {"delete_named_key", "set_active_key"}
                        /\ name \notin KeyNames(LoadedKeys(loaded, ns))
           call   == [NotStarted EXCEPT !.op = op, !.user_id = user_id,
                                        !.ns = ns, !.name = name,
                                        !.token = token, !.before = Saving]
       IN  calls' = [calls EXCEPT ![p] =
              IF LoadRaises(user_id, OkRead)
              THEN [call EXCEPT !.pc = "done", !.out = Raised]
              ELSE IF ends
              THEN [call EXCEPT !.pc = "done", !.loaded = loaded,
                                !.out = Returned(LoadResult(op, loaded, ns))]
              ELSE [call EXCEPT !.pc = "loaded", !.loaded = loaded,
                                !.saved = ChangedData(op, loaded, ns, name,
                                                      token)]]
    /\ UNCHANGED <<pgTable, jsonFile, writers>>
    /\ RaceFrame

\* What a mutating call answers after its save.
SaveResult(op) == IF op = "set_named_key" THEN None ELSE TRUE

\* _save under PostgreSQL: the upsert of _pg_save, one statement.
PgSaveStep(p) ==
    /\ calls[p].pc = "loaded"
    /\ _use_postgres
    /\ pgTable' = _pg_save(calls[p].user_id, calls[p].saved)
    /\ calls' = [calls EXCEPT ![p].pc = "done",
                              ![p].out = Returned(SaveResult(calls[p].op))]
    /\ writers' = Append(writers, p)
    /\ UNCHANGED jsonFile
    /\ RaceFrame

\* _json_save: all_data = _json_load_all(); all_data[str(user_id)] = data
JsonRereadStep(p) ==
    /\ calls[p].pc = "loaded"
    /\ ~_use_postgres
    /\ calls' = [calls EXCEPT ![p].pc = "reread",
                              ![p].all = Put(_json_load_all(TRUE),
                                             Str(calls[p].user_id),
                                             calls[p].saved)]
    /\ UNCHANGED <<pgTable, jsonFile, writers>>
    /\ RaceFrame

\* _json_save_all: write_text opens the file for writing, which empties it;
\* an empty file does not parse.
JsonOpenStep(p) ==
    /\ calls[p].pc = "reread"
    /\ jsonFile' = [state |-> "corrupt", data |-> EmptyDict]
    /\ calls' = [calls EXCEPT ![p].pc = "writing", ![p].clean = TRUE]
    /\ UNCHANGED <<pgTable, writers>>
    /\ RaceFrame

\* _json_save_all: the contents are written from the start of the file and
\* the file is closed.  When another process has written into the file
\* since this one opened it, the file holds this process's contents or, if
\* they are the shorter ones, the rest of the other's behind them, which
\* does not parse; a process that still has the file open will write over
\* these contents in its turn.
JsonWriteStep(p) ==
    /\ calls[p].pc = "writing"
    /\ \E w \in (IF calls[p].clean THEN {"ok"} ELSE {"ok", "torn"}) :
          jsonFile' = _json_save_all(calls[p].all, w)
    /\ calls' = [q \in Procs |->
                    IF q = p
                    THEN [calls[q] EXCEPT
                             !.pc = "done",
                             !.out = Returned(SaveResult(calls[q].op))]
                    ELSE IF calls[q].pc = "writing"
                    THEN [calls[q] EXCEPT !.clean = FALSE]
                    ELSE calls[q]]
    /\ writers' = Append(writers, p)
    /\ UNCHANGED pgTable
    /\ RaceFrame

\* The store the overlapping calls start from: one the registry has
\* written, user 1 with no record, one key or two keys, user 2 with no
\* record or one key.
RaceDocs ==
    { [do |-> [keys |-> << <<"Home", "tok_abc">> >>, active |-> "Home"],
       ps |-> [keys |-> EmptyDict]],
      [do |-> [keys   |-> << <<"Work", "tok_abc">>, <<"Home", "tok_xyz">> >>,
               active |-> "Work"],
       ps |-> [keys |-> EmptyDict]] }

InitRace ==
    LET
        RaceStores ==
            {EmptyDict} \cup {(1 :> d) : d \in RaceDocs}
            \cup {(1 :> d) @@ (2 :> e) : d, e \in RaceDocs}
    IN
    /\ settings \in SettingsSet
    /\ pgSchema = NewSchema
    /\ \E store \in RaceStores :
          IF _use_postgres
          THEN /\ pgTable = [u \in DOMAIN store |-> Jsonb(store[u])]
               /\ jsonFile = EmptyFile
          ELSE /\ pgTable = EmptyDict
               /\ jsonFile = IF store = EmptyDict THEN EmptyFile
                             ELSE [state |-> "ok",
                                   data  |-> [k \in {Str(u) : u \in DOMAIN store}
                                                |-> store[CHOOSE u \in DOMAIN store :
                                                             Str(u) = k]]]
    /\ prev = Storage
    /\ last = NoCall
    /\ nops = 0
    /\ NoOverlap
    /\ NoChat
    /\ NoMonitor

NextRace ==
    \/ \E p \in Procs, u \in UserIds, ns \in Namespaces, n \in Names,
          t \in Tokens : LoadStep(p, "set_named_key", u, ns, n, t)
    \/ \E p \in Procs, op \in {"delete_named_key", "set_active_key"},
          u \in UserIds, ns \in Namespaces, n \in Names :
             LoadStep(p, op, u, ns, n, None)
    \/ \E p \in Procs, op \in RaceReads, u \in UserIds, ns \in Namespaces :
          LoadStep(p, op, u, ns, None, None)
    \/ \E p \in Procs : PgSaveStep(p)
    \/ \E p \in Procs : JsonRereadStep(p)
    \/ \E p \in Procs : JsonOpenStep(p)
    \/ \E p \in Procs : JsonWriteStep(p)

SpecRace == InitRace /\ [][NextRace]_vars

(***************************************************************************)
(* C21.  When two mutating calls for the same user overlap so that both    *)
(* load before either begins its save, the last write wins and nothing is  *)
(* merged: the stored record is the later writer's loaded record with its  *)
(* own change, the loaded record of the later writer is the record stored  *)
(* before either call (the earlier writer's change is not in it), and the  *)
(* stored record has active = None iff keys is empty in both namespaces.   *)
(* (Stated of two saves that follow one another: the later writer's file   *)
(* write does not overlap the earlier one's.)                              *)
(***************************************************************************)
\* Both processes have saved for the same user, the loads first.
BothLoadedThenSaved ==
    /\ Len(writers) = 2
    /\ \A p \in Procs : calls[p].pc = "done" /\ calls[p].before = {}
    /\ calls["a"].user_id = calls["b"].user_id
    /\ calls[writers[2]].clean

C22_ReadSeesBeforeOrAfter ==
    LET
        \* The namespace as the read r loaded it, as it was stored before the
        \* calls, and as the mutating call m saves it.
        SeenByRead(r) == calls[r].loaded[calls[r].ns]
        ReadOverlaps(r, m) ==
            /\ calls[r].op \in RaceReads
            /\ calls[r].pc = "done"
            /\ ~calls[r].out.raised
            /\ calls[m].op \in Mutators
            /\ calls[m].user_id = calls[r].user_id
        StateBefore(r) ==
            EnsureNamespaces(
                _migrate_if_needed(StoredDoc(prev, calls[r].user_id)))[calls[r].ns]
    IN
    \A r, m \in Procs :
       ReadOverlaps(r, m) =>
          \/ SameNamespace(SeenByRead(r), StateBefore(r))
          \/ /\ calls[r].ns \in DOMAIN calls[m].saved
             /\ SameNamespace(SeenByRead(r), calls[m].saved[calls[r].ns])

(***************************************************************************)
(* C23.  A mutating call for user u leaves the stored record of every      *)
(* other user as it was, under both backends and in every storage          *)
(* condition, a file that cannot be read or parsed at the moment of the    *)
(* write included.                                                         *)
(***************************************************************************)
C23_OtherUsersUnchanged ==
    last.op \in Mutators =>
       \A v \in UserIds \ {last.user_id} :
          /\ HasRecord(Storage, v) <=> HasRecord(prev, v)
          /\ StoredDoc(Storage, v) = StoredDoc(prev, v)

(***************************************************************************)
(* C24.  A mutating call that returns normally removes or changes no key   *)
(* of the same user other than the one it names: every entry stored for    *)
(* the user before the call under another name, in either namespace, is    *)
(* stored with the same token after it, also when the load of the call     *)
(* hit a storage read failure.                                             *)
(***************************************************************************)
C24_SameUserKeysKept ==
    (last.op \in Mutators /\ ~last.out.raised) =>
       \A ns \in Namespaces :
          LET before == StoredKeys(prev, last.user_id, ns)
              after  == StoredKeys(Storage, last.user_id, ns)
          IN  \A n \in KeyNames(before) :
                 (ns # last.ns \/ n # last.name) =>
                    /\ n \in KeyNames(after)
                    /\ KeysGet(after, n) = KeysGet(before, n)

(***************************************************************************)
(* C25.  Namespace isolation: set_named_key, delete_named_key and          *)
(* set_active_key applied to one namespace leave the keys and the active   *)
(* name of the user's other namespace as they were, also when the stored   *)
(* document is a flat second-generation one that the call migrates and     *)
(* stores.  (Stated of a call whose read succeeded and whose file write    *)
(* is not cut short.)                                                      *)
(***************************************************************************)
C25_NamespaceIsolation ==
    (last.op \in Mutators /\ last.io.r1 /\ last.io.w # "torn") =>
       \A ns \in Namespaces \ {last.ns} :
          /\ StoredKeys(Storage, last.user_id, ns)
                = StoredKeys(prev, last.user_id, ns)
          /\ StoredActive(Storage, last.user_id, ns)
                = StoredActive(prev, last.user_id, ns)

\* A Paperspace key is saved for a user whose stored document is flat: the
\* document is stored with both wrappers, the flat keys and active name
\* under "do".
C25_Witness ==
    /\ Saved("set_named_key")
    /\ last.ns = "ps"
    /\ last.io.r1
    /\ "keys" \in DOMAIN StoredDoc(prev, last.user_id)
    /\ "active" \in DOMAIN StoredDoc(prev, last.user_id)
    /\ {"do", "ps"} \subseteq DOMAIN StoredDoc(Storage, last.user_id)
    /\ StoredDoc(Storage, last.user_id)["do"].keys
          = StoredDoc(prev, last.user_id).keys
    /\ StoredDoc(Storage, last.user_id)["do"].active
          = StoredDoc(prev, last.user_id).active
    /\ StoredKeys(Storage, last.user_id, "ps") # EmptyDict

(***************************************************************************)
(* The Telegram handlers of the key conversations, src/bot/handlers/       *)
(* setkey.py and ps_setkey.py (the same code for the "ps" namespace; h is  *)
(* "setkey" or "pskey").  The application handles one update at a time     *)
(* and hands it to the first registered handler that accepts it: a         *)
(* ConversationHandler accepts an entry command when no conversation is    *)
(* open for the update's (chat, user), and otherwise what the handlers of  *)
(* the conversation's state or its fallbacks accept.  Each action is one   *)
(* update handled to the end, the calls of the key store included.         *)
(***************************************************************************)
MaxUpdates == 4

\* len(name) > 50
MaxNameLen == 50

WAITING_FOR_NAME == "WAITING_FOR_NAME"
WAITING_FOR_TOKEN == "WAITING_FOR_TOKEN"

\* The texts users send: a name, a name between blanks, a token, blanks
\* only, a long text.
ChatTexts ==
    LET
        \* A text of 51 characters.
        LongText == "123456789012345678901234567890123456789012345678901"
    IN
    {"Home", " Work ", "tok_abc", "   ", LongText}

\* text.strip()
Strip(text) ==
    CASE text = " Work " -> "Work"
      [] text = "   "    -> ""
      [] OTHER           -> text

\* The storage conditions of a handler's calls: the reads succeed, the
\* write succeeds or fails.
ChatIo == [r1 : {TRUE}, r2 : {TRUE}, w : {"ok", "fail"}]

\* The namespace and the user_data key of the two modules.
NsOf(h) == IF h = "setkey" THEN "do" ELSE "ps"

NameKey(h) == IF h = "setkey" THEN "setkey_name" ELSE "pskey_name"

\* The order in which main() registers the conversation handlers.
Registered == <<"destroy", "setkey", "pskey">>

Earlier(h) ==
    {Registered[i] : i \in {j \in 1..Len(Registered) :
                               \E m \in (j + 1)..Len(Registered) :
                                  Registered[m] = h}}

\* The conversation h takes the update: it is in the state (or open, for a
\* fallback) and no handler registered before it accepts the update.
TakesText(h, k, state) ==
    /\ conv[h][k] = state
    /\ \A g \in Earlier(h) :
          conv[g][k] \notin {WAITING_FOR_NAME, WAITING_FOR_TOKEN}

TakesCancel(h, k) ==
    /\ conv[h][k] # END
    /\ \A g \in Earlier(h) : conv[g][k] = END

\* Mutant: every user is let through.
authorized_only_Everyone(user_id) == TRUE

\* authorized_only: the wrapped handler is called.
authorized_only(user_id) == user_id \in settings.ALLOWED_USER_IDS

\* Mutant: the token is saved whatever the validation call did.
TokenAccepted_Always(validation) == TRUE

\* receive_token reaches set_named_key: the validation call raised nothing.
TokenAccepted(validation) == validation = "ok"

Update(kind, chat, user, data, h, handler) ==
    [NoEvent EXCEPT !.kind = kind, !.chat = chat, !.user = user,
                    !.data = data, !.of = h, !.handler = handler]

\* One update handled: ev is the update and what happened, c and ud the
\* conversations and user_data after it, call the key-store mutation the
\* handler made (NoCall when it made none), pg and json the store after it.
Handled(ev, c, ud, call, pg, json) ==
    /\ nops < MaxUpdates
    /\ nops' = nops + 1
    /\ event' = ev
    /\ conv' = c
    /\ user_data' = ud
    /\ last' = call
    /\ prev' = Storage
    /\ pgTable' = pg
    /\ jsonFile' = json
    /\ UNCHANGED <<settings, pgSchema, raceVars, monitorVars>>

\* The handler changed nothing but, possibly, its conversation's state.
Answered(ev, c) == Handled(ev, c, user_data, NoCall, pgTable, jsonFile)

\* /setkey, /pskey: the entry point of the conversation, behind
\* authorized_only (a denied entry returns None: no conversation opens).
setkey_start(h, chat, user) ==
    LET k  == <<chat, user>>
        ev == Update("command", chat, user, h, h, "setkey_start")
    IN  /\ conv[h][k] = END
        /\ UNCHANGED shown
        /\ IF ~authorized_only(user) THEN Answered([ev EXCEPT !.denied = TRUE], conv)
           ELSE Answered(ev, [conv EXCEPT ![h][k] = WAITING_FOR_NAME])

\* receive_name / ps_receive_name
receive_name(h, chat, user, text) ==
    LET
        \* receive_name: not (not name or len(name) > 50)
        ValidName(name) == name # "" /\ Len(name) <= MaxNameLen
    IN
    LET k    == <<chat, user>>
        name == Strip(text)
        ev   == Update("text", chat, user, text, h, "receive_name")
    IN  /\ TakesText(h, k, WAITING_FOR_NAME)
        /\ UNCHANGED shown
        /\ IF ~ValidName(name) THEN Answered(ev, conv)
           ELSE Handled(ev, [conv EXCEPT ![h][k] = WAITING_FOR_TOKEN],
                        [user_data EXCEPT ![user] = Put(@, NameKey(h), name)],
                        NoCall, pgTable, jsonFile)

\* receive_token / ps_receive_token: the validation call, then
\* set_named_key; an exception of set_named_key leaves the handler without
\* a new state.
receive_token(h, chat, user, text, validation, io) ==
    LET k     == <<chat, user>>
        token == Strip(text)
        name  == Get(user_data[user], NameKey(h), "Default")
        ev    == [Update("text", chat, user, text, h, "receive_token")
                     EXCEPT !.validation = validation]
        data  == SetNamedKeyData(_load(user, io), NsOf(h), name, token)
        saved == _save(user, data, io)
    IN  /\ TakesText(h, k, WAITING_FOR_TOKEN)
        /\ UNCHANGED shown
        /\ IF ~TokenAccepted(validation) THEN Answered(ev, conv)
           ELSE IF saved.raised
           THEN Handled(ev, conv, user_data,
                        SaveCall("set_named_key", user, NsOf(h), name, token,
                                 io, Raised, data),
                        pgTable, jsonFile)
           ELSE Handled(ev, [conv EXCEPT ![h][k] = END], user_data,
                        SaveCall("set_named_key", user, NsOf(h), name, token,
                                 io, Returned(None), data),
                        saved.pg, saved.json)

\* cancel_setkey / ps_cancel_setkey: the fallback /cancel
cancel_setkey(h, chat, user) ==
    LET k == <<chat, user>>
    IN  /\ TakesCancel(h, k)
        /\ UNCHANGED shown
        /\ Answered(Update("command", chat, user, "cancel", h, "cancel_setkey"),
                    [conv EXCEPT ![h][k] = END])

\* usekey_callback / usepsk_callback: the button "usekey_<name>"
usekey_callback(h, chat, user, name, io) ==
    LET ev     == Update("callback", chat, user, name, h, "usekey_callback")
        loaded == _load(user, io)
        data   == SetActiveKeyData(loaded, NsOf(h), name)
        saved  == _save(user, data, io)
    IN  /\ UNCHANGED shown
        /\ IF ~authorized_only(user) THEN Answered([ev EXCEPT !.denied = TRUE], conv)
           ELSE IF name \notin KeyNames(LoadedKeys(loaded, NsOf(h)))
           THEN Handled(ev, conv, user_data,
                        Call("set_active_key", user, NsOf(h), name, None, io,
                             Returned(FALSE)),
                        pgTable, jsonFile)
           ELSE Handled(ev, conv, user_data,
                        SaveCall("set_active_key", user, NsOf(h), name, None,
                                 io, IF saved.raised THEN Raised
                                     ELSE Returned(TRUE), data),
                        saved.pg, saved.json)

\* delkey_callback / delpsk_callback: the button "delkey_<name>"
delkey_callback(h, chat, user, name, io) ==
    LET ev     == Update("callback", chat, user, name, h, "delkey_callback")
        loaded == _load(user, io)
        data   == DeleteNamedKeyData(loaded, NsOf(h), name)
        saved  == _save(user, data, io)
    IN  /\ UNCHANGED shown
        /\ IF ~authorized_only(user) THEN Answered([ev EXCEPT !.denied = TRUE], conv)
           ELSE IF name \notin KeyNames(LoadedKeys(loaded, NsOf(h)))
           THEN Handled(ev, conv, user_data,
                        Call("delete_named_key", user, NsOf(h), name, None,
                             io, Returned(FALSE)),
                        pgTable, jsonFile)
           ELSE Handled(ev, conv, user_data,
                        SaveCall("delete_named_key", user, NsOf(h), name,
                                 None, io, IF saved.raised THEN Raised
                                           ELSE Returned(TRUE), data),
                        saved.pg, saved.json)

\* A text or a /cancel that no handler accepts: no conversation of the
\* (chat, user) waits for it.
no_handler(kind, chat, user, data) ==
    LET k == <<chat, user>>
    IN  /\ kind = "text" =>
              \A h \in {"setkey", "pskey"} :
                 conv[h][k] \notin {WAITING_FOR_NAME, WAITING_FOR_TOKEN}
        /\ kind = "command" => \A h \in DOMAIN conv : conv[h][k] = END
        /\ UNCHANGED shown
        /\ Answered(Update(kind, chat, user, data, "none", "none"), conv)

KeyHandlers == {"setkey", "pskey"}

InitKeys ==
    LET
        ChatSettings ==
            [DATABASE_URL : DatabaseUrls, ALLOWED_USER_IDS : {{1}}]
    IN
    /\ settings \in ChatSettings
    /\ pgSchema = NewSchema
    /\ pgTable = EmptyDict
    /\ jsonFile = EmptyFile
    /\ prev = Storage
    /\ last = NoCall
    /\ nops = 0
    /\ NoOverlap
    /\ NoChat
    /\ NoMonitor

NextKeys ==
    \/ \E h \in KeyHandlers, c \in Chats, u \in UserIds : setkey_start(h, c, u)
    \/ \E h \in KeyHandlers, c \in Chats, u \in UserIds, text \in ChatTexts :
          receive_name(h, c, u, text)
    \/ \E h \in KeyHandlers, c \in Chats, u \in UserIds, text \in ChatTexts,
          io \in ChatIo :
             \E v \in IF Strip(text) = "" THEN {"ClientError", "Exception"}
                       ELSE {"ok", "ClientError", "Exception"} :
                receive_token(h, c, u, text, v, io)
    \/ \E h \in KeyHandlers, c \in Chats, u \in UserIds : cancel_setkey(h, c, u)
    \/ \E h \in KeyHandlers, c \in Chats, u \in UserIds, n \in Names,
          io \in ChatIo : usekey_callback(h, c, u, n, io)
    \/ \E h \in KeyHandlers, c \in Chats, u \in UserIds, n \in Names,
          io \in ChatIo : delkey_callback(h, c, u, n, io)
    \/ \E c \in Chats, u \in UserIds, text \in ChatTexts :
          no_handler("text", c, u, text)
    \/ \E c \in Chats, u \in UserIds : no_handler("command", c, u, "cancel")

SpecKeys == InitKeys /\ [][NextKeys]_vars

(***************************************************************************)
(* C26.  No mutation of the key store (set_named_key, delete_named_key,    *)
(* set_active_key, of either namespace) is executed for a Telegram user    *)
(* whose id is not in ALLOWED_USER_IDS, whatever commands, texts and       *)
(* button presses are sent: a mutation is made for the allowed user who    *)
(* sent the update, a user who is not allowed has no open conversation     *)
(* and no stored record, and an update of such a user changes nothing.     *)
(***************************************************************************)
C26_OnlyAllowedUsersMutate ==
    /\ last.op \in Mutators =>
          /\ last.user_id \in settings.ALLOWED_USER_IDS
          /\ last.user_id = event.user
    /\ \A u \in UserIds \ settings.ALLOWED_USER_IDS :
          /\ ~HasRecord(Storage, u)
          /\ \A h \in KeyHandlers, c \in Chats : conv[h][<<c, u>>] = END
    /\ (event.kind # "none" /\ event.user \notin settings.ALLOWED_USER_IDS) =>
          /\ last.op = "idle"
          /\ Storage = prev

\* In the group chat the conversation of the allowed user waits for the
\* token, and a text of the user who is not allowed reaches no handler.
C26_Witness ==
    /\ event.kind = "text"
    /\ event.user \notin settings.ALLOWED_USER_IDS
    /\ event.handler = "none"
    /\ \E u \in settings.ALLOWED_USER_IDS :
          conv["setkey"][<<event.chat, u>>] = WAITING_FOR_TOKEN
    /\ Storage = prev

(***************************************************************************)
(* C27.  In the /setkey and /pskey conversations set_named_key is called   *)
(* only by receive_token after the validation call for that token has      *)
(* succeeded; when the validation fails the conversation stays in          *)
(* WAITING_FOR_TOKEN and the store is unchanged; a name that is empty or   *)
(* longer than 50 characters keeps it in WAITING_FOR_NAME; /cancel ends    *)
(* the conversation that takes it, without a write.                        *)
(***************************************************************************)
C27_SavedOnlyAfterValidation ==
    LET k == <<event.chat, event.user>>
    IN  /\ last.op = "set_named_key" =>
              /\ event.handler = "receive_token"
              /\ event.validation = "ok"
              /\ last.token = Strip(event.data)
              /\ last.ns = NsOf(event.of)
        /\ (event.handler = "receive_token" /\ event.validation # "ok") =>
              /\ conv[event.of][k] = WAITING_FOR_TOKEN
              /\ last.op = "idle"
              /\ Storage = prev
        /\ (/\ event.handler = "receive_name"
            /\ Strip(event.data) = "" \/ Len(Strip(event.data)) > 50) =>
              /\ conv[event.of][k] = WAITING_FOR_NAME
              /\ last.op = "idle"
              /\ Storage = prev
        /\ event.handler = "cancel_setkey" =>
              /\ conv[event.of][k] = END
              /\ last.op = "idle"
              /\ Storage = prev

\* A Paperspace token is validated and stored under the name the user sent
\* between blanks; the conversation has ended.
C27_Witness ==
    /\ event.handler = "receive_token"
    /\ event.of = "pskey"
    /\ event.validation = "ok"
    /\ conv["pskey"][<<event.chat, event.user>>] = END
    /\ KeysGet(StoredKeys(Storage, event.user, "ps"), "Work") = "tok_abc"
    /\ StoredKeys(prev, event.user, "ps") = EmptyDict

(***************************************************************************)
(* The /destroy conversation (bot/handlers/destroy.py).  The state of the  *)
(* conversation is kept per (chat, user), context.user_data per user;      *)
(* shown is the droplet id the confirmation message of a conversation      *)
(* displays, event.destroyed the destroy_droplet calls of the last update. *)
(* The reads of the key store succeed.                                     *)
(***************************************************************************)
MaxPresses == 6

SELECT_DROPLET == "SELECT_DROPLET"
CONFIRM == "CONFIRM"

\* The callback data of the buttons of the two messages.
SelectButtons == {"dest_sel_111", "dest_sel_222"}

DestroyButtons == {"dest_confirm_yes", "dest_confirm_no"}

\* One update of the /destroy conversation handled: the key store is only
\* read.
Pressed(ev, c, ud, sh) ==
    /\ nops < MaxPresses
    /\ nops' = nops + 1
    /\ event' = ev
    /\ conv' = c
    /\ user_data' = ud
    /\ shown' = sh
    /\ UNCHANGED <<settings, pgSchema, pgTable, jsonFile, prev, last,
                   raceVars, monitorVars>>

\* /destroy: the entry point; env is settings.DO_API_TOKEN.
destroy_command(chat, user, env, listing) ==
    LET
        GoodRead == [r1 |-> TRUE, r2 |-> TRUE, w |-> "none"]
    IN
    LET k     == <<chat, user>>
        ev    == Update("command", chat, user, "destroy", "destroy",
                        "destroy_command")
        token == EffectiveToken(
                     LoadedActiveToken(_load(user, GoodRead), "do"), env)
    IN  /\ conv["destroy"][k] = END
        /\ IF ~authorized_only(user)
           THEN Pressed([ev EXCEPT !.denied = TRUE], conv, user_data, shown)
           ELSE IF ~Truthy(token) \/ listing # "listed"
           THEN Pressed(ev, conv, user_data, shown)
           ELSE Pressed(ev, [conv EXCEPT !["destroy"][k] = SELECT_DROPLET],
                        user_data, [shown EXCEPT ![k] = 0])

\* droplet_selected: the button "dest_sel_<id>" in the state SELECT_DROPLET
droplet_selected(chat, user, data) ==
    LET k  == <<chat, user>>
        \* int(query.data.replace("dest_sel_", ""))
        droplet_id == IF data = "dest_sel_111" THEN 111 ELSE 222
        ev == Update("callback", chat, user, data, "destroy",
                     "droplet_selected")
    IN  /\ conv["destroy"][k] = SELECT_DROPLET
        /\ IF ~authorized_only(user)
           THEN Pressed([ev EXCEPT !.denied = TRUE], conv, user_data, shown)
           ELSE Pressed(ev, [conv EXCEPT !["destroy"][k] = CONFIRM],
                        [user_data EXCEPT
                            ![user] = Put(@, "destroy_droplet_id", droplet_id)],
                        [shown EXCEPT ![k] = droplet_id])

\* confirm_destroy: the buttons "dest_confirm_yes" / "dest_confirm_no" in
\* the state CONFIRM; the destroy call is issued whether or not the API
\* then answers with an error.
confirm_destroy(chat, user, data) ==
    LET k  == <<chat, user>>
        \* context.user_data.get("destroy_droplet_id")
        droplet_id == Get(user_data[user], "destroy_droplet_id", None)
        ev == Update("callback", chat, user, data, "destroy",
                     "confirm_destroy")
    IN  /\ conv["destroy"][k] = CONFIRM
        /\ IF ~authorized_only(user)
           THEN Pressed([ev EXCEPT !.denied = TRUE], conv, user_data, shown)
           ELSE IF data = "dest_confirm_no"
           THEN Pressed(ev, [conv EXCEPT !["destroy"][k] = END],
                        user_data, shown)
           ELSE Pressed([ev EXCEPT !.destroyed = <<droplet_id>>],
                        [conv EXCEPT !["destroy"][k] = END], user_data, shown)

\* cancel: the fallback /cancel
cancel(chat, user) ==
    LET k  == <<chat, user>>
        ev == Update("command", chat, user, "cancel", "destroy", "cancel")
    IN  /\ TakesCancel("destroy", k)
        /\ IF ~authorized_only(user)
           THEN Pressed([ev EXCEPT !.denied = TRUE], conv, user_data, shown)
           ELSE Pressed(ev, [conv EXCEPT !["destroy"][k] = END],
                        user_data, shown)

\* A button of an earlier message that the state of the conversation does
\* not accept: no handler is called.
no_button(chat, user, data) ==
    LET k == <<chat, user>>
    IN  /\ data \in DestroyButtons => conv["destroy"][k] # CONFIRM
        /\ data \in SelectButtons => conv["destroy"][k] # SELECT_DROPLET
        /\ Pressed(Update("callback", chat, user, data, "none", "none"),
                   conv, user_data, shown)

NextDestroy ==
    \/ \E c \in Chats, u \in UserIds, env \in EnvDoTokens,
          l \in {"error", "empty", "listed"} :
          destroy_command(c, u, env, l)
    \/ \E c \in Chats, u \in UserIds, b \in SelectButtons :
          droplet_selected(c, u, b)
    \/ \E c \in Chats, u \in UserIds, b \in DestroyButtons :
          confirm_destroy(c, u, b)
    \/ \E c \in Chats, u \in UserIds : cancel(c, u)
    \/ \E c \in Chats, u \in UserIds, b \in DestroyButtons \cup SelectButtons :
          no_button(c, u, b)

SpecDestroy == InitKeys /\ [][NextDestroy]_vars

(***************************************************************************)
(* C28.  In the /destroy conversation destroy_droplet is called only by    *)
(* the "yes" confirmation of a conversation in which a droplet was         *)
(* selected; "no" and /cancel end the conversation with no destroy call;   *)
(* a confirmation makes at most one call, and the call is for the droplet  *)
(* id selected (and displayed) in that conversation.                       *)
(***************************************************************************)
C28_DestroysTheSelectedDroplet ==
    LET k == <<event.chat, event.user>>
    IN  /\ event.destroyed # <<>> =>
              /\ event.handler = "confirm_destroy"
              /\ event.data = "dest_confirm_yes"
              /\ shown[k] # 0
              /\ Len(event.destroyed) = 1
              /\ event.destroyed[1] = shown[k]
        /\ (event.handler = "confirm_destroy" /\ ~event.denied
                /\ event.data = "dest_confirm_no") =>
              /\ event.destroyed = <<>>
              /\ conv["destroy"][k] = END
        /\ (event.handler = "cancel" /\ ~event.denied) =>
              /\ event.destroyed = <<>>
              /\ conv["destroy"][k] = END

(***************************************************************************)
(* The GPU monitor script (src/main.py), a program of its own with no      *)
(* authorization: the /login conversation, the repeating job of a chat,    *)
(* /stop_monitor, /status and /check_now.  jobs[c] is the number of jobs   *)
(* named gpu_monitor_<c> in the job queue, created[c] the droplets created *)
(* for chat c since monitoring was last started for it.  A handler and a   *)
(* run of the job are one step each; what the browser and Telegram answer  *)
(* is an input of the step.                                                *)
(***************************************************************************)
MaxChecks == 6

WAITING_EMAIL == "WAITING_EMAIL"
WAITING_PASSWORD == "WAITING_PASSWORD"
WAITING_OTP == "WAITING_OTP"

LoginTexts == {" user@mail ", "123456"}

\* One step of the monitor script: ev the update or job run, c and ud the
\* login conversations and user_data after it, m the monitoring state.
Monitored(ev, c, ud, m) ==
    /\ nops < MaxChecks
    /\ nops' = nops + 1
    /\ event' = ev
    /\ conv' = c
    /\ user_data' = ud
    /\ is_monitoring' = m.is_monitoring
    /\ last_check_result' = m.last_check_result
    /\ jobs' = m.jobs
    /\ created' = m.created
    /\ UNCHANGED <<settings, pgSchema, pgTable, jsonFile, prev, last,
                   raceVars, shown>>

Monitoring ==
    [is_monitoring |-> is_monitoring, last_check_result |-> last_check_result,
     jobs |-> jobs, created |-> created]

\* _start_monitoring: the chat's jobs are removed, one is scheduled.
_start_monitoring(chat_id) ==
    [Monitoring EXCEPT !.jobs[chat_id] = 1, !.created[chat_id] = 0,
                       !.is_monitoring = TRUE]

login_start(chat, user) ==
    LET k == <<chat, user>>
    IN  /\ conv["login"][k] = END
        /\ Monitored(Update("command", chat, user, "login", "login",
                            "login_start"),
                     [conv EXCEPT !["login"][k] = WAITING_EMAIL],
                     user_data, Monitoring)

receive_email(chat, user, text) ==
    LET k == <<chat, user>>
    IN  /\ conv["login"][k] = WAITING_EMAIL
        /\ Monitored(Update("text", chat, user, text, "login",
                            "receive_email"),
                     [conv EXCEPT !["login"][k] = WAITING_PASSWORD],
                     [user_data EXCEPT ![user] = Put(@, "email", Strip(text))],
                     Monitoring)

receive_password(chat, user, text, result) ==
    LET k  == <<chat, user>>
        ev == [Update("text", chat, user, text, "login", "receive_password")
                  EXCEPT !.validation = result]
    IN  /\ conv["login"][k] = WAITING_PASSWORD
        /\ IF result = "OTP_REQUIRED"
           THEN Monitored(ev, [conv EXCEPT !["login"][k] = WAITING_OTP],
                          user_data, Monitoring)
           ELSE Monitored(ev, [conv EXCEPT !["login"][k] = END], user_data,
                          IF result = "LOGIN_SUCCESS"
                          THEN _start_monitoring(chat) ELSE Monitoring)

receive_otp(chat, user, text, result) ==
    LET k  == <<chat, user>>
        ev == [Update("text", chat, user, text, "login", "receive_otp")
                  EXCEPT !.validation = result]
    IN  /\ conv["login"][k] = WAITING_OTP
        /\ Monitored(ev, [conv EXCEPT !["login"][k] = END], user_data,
                     IF result = "LOGIN_SUCCESS"
                     THEN _start_monitoring(chat) ELSE Monitoring)

cancel_login(chat, user) ==
    LET k == <<chat, user>>
    IN  /\ conv["login"][k] # END
        /\ Monitored(Update("command", chat, user, "cancel", "login",
                            "cancel_login"),
                     [conv EXCEPT !["login"][k] = END], user_data, Monitoring)

\* Mutant: the job stays in the queue after a successful creation.
JobsAfterCreation_Kept(chat_id) == jobs

\* monitor_gpu_job, creation succeeded: the chat's jobs are removed.
JobsAfterCreation(chat_id) == [jobs EXCEPT ![chat_id] = 0]

\* monitor_gpu_job: one run of the job of chat_id, which the job queue
\* starts only while the job is scheduled; the except branch sets
\* is_monitoring = False and leaves the job queue alone.
monitor_gpu_job(chat_id, o) ==
    LET ev      == [Update("job", chat_id, 0, o.create, "none",
                           "monitor_gpu_job") EXCEPT !.denied = o.raised]
        success == o.create = "success"
        flag    == IF success THEN FALSE ELSE is_monitoring
    IN  /\ jobs[chat_id] > 0
        /\ Monitored(ev, conv, user_data,
              [is_monitoring     |-> IF o.raised THEN FALSE ELSE flag,
               last_check_result |-> IF o.available THEN "available" ELSE "unavailable",
               jobs              |-> IF success THEN JobsAfterCreation(chat_id)
                                     ELSE jobs,
               created           |-> IF success
                                     THEN [created EXCEPT ![chat_id] = @ + 1]
                                     ELSE created])

\* /stop_monitor
stop_monitor_cmd(chat, user) ==
    LET ev == Update("command", chat, user, "stop_monitor", "none",
                     "stop_monitor_cmd")
    IN  IF jobs[chat] = 0
        THEN Monitored(ev, conv, user_data, Monitoring)
        ELSE Monitored(ev, conv, user_data,
                       [Monitoring EXCEPT !.jobs[chat] = 0,
                                          !.is_monitoring = FALSE])

\* /status: event.validation is the state the reply reports.
status_cmd(chat, user) ==
    Monitored([Update("command", chat, user, "status", "none", "status_cmd")
                  EXCEPT !.validation = IF is_monitoring THEN "active"
                                        ELSE "inactive"],
              conv, user_data, Monitoring)

\* /check_now: refused unless is_monitoring; never creates a droplet.
check_now_cmd(chat, user, available) ==
    LET ev == Update("command", chat, user, "check_now", "none",
                     "check_now_cmd")
    IN  IF ~is_monitoring
        THEN Monitored([ev EXCEPT !.denied = TRUE], conv, user_data, Monitoring)
        ELSE Monitored(ev, conv, user_data,
                       [Monitoring EXCEPT
                           !.last_check_result =
                               IF available THEN "available"
                               ELSE "unavailable"])

InitMonitor ==
    /\ settings \in [DATABASE_URL : {""}, ALLOWED_USER_IDS : {{}}]
    /\ pgSchema = NewSchema
    /\ pgTable = EmptyDict
    /\ jsonFile = EmptyFile
    /\ prev = Storage
    /\ last = NoCall
    /\ nops = 0
    /\ NoOverlap
    /\ NoChat
    /\ NoMonitor

NextMonitor ==
    \/ \E c \in Chats, u \in UserIds : login_start(c, u)
    \/ \E c \in Chats, u \in UserIds, text \in LoginTexts :
          receive_email(c, u, text)
    \/ \E c \in Chats, u \in UserIds, text \in LoginTexts,
          r \in {"Failed", "OTP_REQUIRED", "LOGIN_SUCCESS", "LOGIN_FAILED"} :
          receive_password(c, u, text, r)
    \/ \E c \in Chats, u \in UserIds, text \in LoginTexts,
          r \in {"LOGIN_SUCCESS", "OTP_FAILED"} :
          receive_otp(c, u, text, r)
    \/ \E c \in Chats, u \in UserIds : cancel_login(c, u)
    \/ \E c \in Chats,
          o \in [available : {FALSE}, create : {"none"}, raised : BOOLEAN]
                \cup [available : {TRUE}, create : {"none"}, raised : {TRUE}]
                \cup [available : {TRUE}, create : {"success", "failure"},
                      raised : BOOLEAN] :
          monitor_gpu_job(c, o)
    \/ \E c \in Chats, u \in UserIds : stop_monitor_cmd(c, u)
    \/ \E c \in Chats, u \in UserIds : status_cmd(c, u)
    \/ \E c \in Chats, u \in UserIds, a \in BOOLEAN : check_now_cmd(c, u, a)

SpecMonitor == InitMonitor /\ [][NextMonitor]_vars

(***************************************************************************)
(* C29.  In the monitor script is_monitoring is true exactly when a        *)
(* gpu_monitor job is scheduled, in every state reached by logins, job     *)
(* runs (those that raise included), /stop_monitor commands and            *)
(* auto-creations; and at most one gpu_monitor job is scheduled per chat.  *)
(***************************************************************************)
C29_FlagAgreesWithJobQueue ==
    /\ is_monitoring <=> (\E c \in Chats : jobs[c] > 0)
    /\ \A c \in Chats : jobs[c] <= 1

====
